---- MODULE Spec2Model ----
(***************************************************************************)
(* A model of the CSI preprocessing and windowing pipeline of              *)
(* models/training/train_pose_model.py: CSIDataPreprocessor.parse_sample,  *)
(* create_windows, load_dataset and the data-loading part of main.         *)
(*                                                                         *)
(* A sample is a record holding exactly the keys its JSON object holds     *)
(* ("label", "amp", "phase"), so that Python's  'k' in sample  is          *)
(* "k" \in DOMAIN sample.  Amplitudes and phases are sequences of small    *)
(* integers.  A z-scored amplitude entry is kept exactly, as the tuple     *)
(*    <<"z", num, var, n>>   standing for  num / (sqrt(var) + n * 1e-6)    *)
(* with num = n*x - sum(amp) and var = n*sum(amp^2) - sum(amp)^2, which is *)
(* (x - mean) / (std + 1e-6) with numerator and denominator scaled by n.   *)
(* A scaled phase entry is <<"pi", p>>, standing for p / pi.               *)
(*                                                                         *)
(* Around the pipeline, the tools of src/tools: the synthetic generator    *)
(* (generate_synthetic_data.py, SpecGen), the two readers of the serial    *)
(* link (read_csi.py and collect_csi_dataset.py, SpecLink), the analyzer   *)
(* (analyze_csi.py, SpecStats and SpecStatsRaw), the collector's main      *)
(* (collect_csi_dataset.py, SpecCollect and SpecCollectFair) and the .env  *)
(* loader (load_wifi_env.py, SpecEnv).  Each tool has its own variables    *)
(* and its own specification; the others stay idle.                        *)
(***************************************************************************)
EXTENDS Integers, Sequences, FiniteSets, TLC

VARIABLES
    window_size,      \* CSIDataPreprocessor.window_size
    num_subcarriers,  \* CSIDataPreprocessor.num_subcarriers
    numpy_ragged,     \* what np.array does with a ragged list: "raise" or "object"
    data,             \* dataset['data'] of the dataset file
    pc,               \* position of main / of the caller of parse_sample
    X, y,             \* the tensors load_dataset returned
    n_loaded,         \* the count printed as "Loaded ... samples"
    n_labeled,        \* the count printed as "Labeled samples: ..."
    raised,           \* the exception that ended the run, or "none"
    X_train, X_val,   \* main's split of X
    y_train, y_val,   \* main's split of y
    sample_arg,       \* the argument of a direct parse_sample call
    features_ret,     \* what that call returned
    gen_num_subcarriers, \* SyntheticCSIGenerator.num_subcarriers
    rng,              \* state of numpy's global random generator
    gen_call,         \* the last call made on the generator, and np.random's state at its entry
    gen_ret,          \* what that call returned
    rng_b,            \* the generator state of a second run from the same seed
    gen_ret_b,        \* what the same call returned in the second run
    link_lines,       \* the lines the device has written to the serial link
    rc_pos,           \* read_csi.main: lines read so far
    rc_state,         \* read_csi.main: "reading", "interrupted" or "raised"
    rc_raised,        \* read_csi.main: the exception that ended the loop
    rc_packet_count,  \* read_csi.main: packet_count
    rc_out,           \* read_csi.main: the records printed and saved
    col_pos,          \* CSICollector: lines read so far
    col_ret,          \* CSICollector.collect_packet: the last return value
    col_packets,      \* CSICollector: the packets collect_packet returned
    an_data,          \* CSIAnalyzer.data
    an_call,          \* the last call made on the analyzer
    an_ret,           \* what that call returned or raised
    main_pc,          \* collect_csi_dataset.main: where the run is
    args,             \* collect_csi_dataset.main: the command line
    existing,         \* the dataset file named by --dataset, before the run
    ser,              \* CSICollector.ser: "none", "open" or "closed"
    pose_data,        \* CSICollector.pose_data
    session,          \* collect_with_label: label, description, session_data
    sessions,         \* the finished sessions and the packets each one read
    saved,            \* the file save_dataset wrote in this run, if any
    exit_status,      \* how main ended: exit code and exception
    env_file,         \* the .env file: missing, or its lines
    os_environ,       \* the process environment
    env_call,         \* load_wifi_env: the last call made
    env_ret           \* load_wifi_env: what it returned, raised or exited with

trainVars == <<window_size, num_subcarriers, numpy_ragged, data, pc, X, y, n_loaded,
               n_labeled, raised, X_train, X_val, y_train, y_val, sample_arg,
               features_ret>>

genVars == <<gen_num_subcarriers, rng, gen_call, gen_ret, rng_b, gen_ret_b>>

linkVars == <<link_lines, rc_pos, rc_state, rc_raised, rc_packet_count, rc_out,
              col_pos, col_ret, col_packets>>

statVars == <<an_data, an_call, an_ret>>

collectVars == <<main_pc, args, existing, ser, pose_data, session, sessions, saved,
                 exit_status>>

envVars == <<env_file, os_environ, env_call, env_ret>>

toolVars == <<genVars, linkVars, statVars, collectVars, envVars>>

vars == <<trainVars, toolVars>>

----------------------------------------------------------------------------
(* Bounds of the model. *)

MaxData == 3
MaxW == 2
MaxS == 2
MaxInvalid == 1
MaxSeed == 7
MaxK == 2
MaxClock == 2

----------------------------------------------------------------------------
(* Python and numpy primitives the code uses. *)

Min2(a, b) == IF a < b THEN a ELSE b
Max2(a, b) == IF a > b THEN a ELSE b

SetMin(S) == CHOOSE m \in S : \A o \in S : m <= o

RECURSIVE Sum(_)
Sum(s) == IF s = <<>> THEN 0 ELSE Head(s) + Sum(Tail(s))

Squares(s) == [i \in 1..Len(s) |-> s[i] * s[i]]

\* Python's s[i:j] for integers i, j of either sign.
PyIndex(k, n) == IF k < 0 THEN Max2(0, n + k) ELSE Min2(k, n)
PySlice(s, i, j) == SubSeq(s, PyIndex(i, Len(s)) + 1, PyIndex(j, Len(s)))

\* len(range(n))
range_len(n) == Max2(0, n)

\* np.pad(a, (0, k), 'constant') for k >= 0 (numpy raises ValueError for k < 0).
np_pad(a, k) == a \o [i \in 1..k |-> 0]

\* (amp - np.mean(amp)) / (np.std(amp) + 1e-6); an empty array stays empty.
normalize_amp(amp) ==
    LET n == Len(amp)
        total == Sum(amp)
        var == n * Sum(Squares(amp)) - total * total
    IN  [i \in 1..n |-> <<"z", n * amp[i] - total, var, n>>]

\* phase / np.pi
normalize_phase(phase) == [i \in 1..Len(phase) |-> <<"pi", phase[i]>>]

----------------------------------------------------------------------------
(* CSIDataPreprocessor.parse_sample *)

ParseError(e) == [err |-> e, vec |-> <<>>]

parse_features(amp, phase) ==
    [err |-> "none", vec |-> normalize_amp(amp) \o normalize_phase(phase)]

\* The pad-or-truncate step: both arrays follow the test on len(amp).
pad_or_truncate(amp, phase, S) ==
    IF Len(amp) < S
    THEN IF S - Len(phase) < 0
         THEN ParseError("ValueError")
         ELSE parse_features(np_pad(amp, S - Len(amp)), np_pad(phase, S - Len(phase)))
    ELSE parse_features(PySlice(amp, 0, S), PySlice(phase, 0, S))

\* sample.get('phase', [0] * len(amp))
default_phase_empty(sample) ==
    IF "phase" \in DOMAIN sample THEN sample.phase ELSE <<>>

default_phase(sample) ==
    IF "phase" \in DOMAIN sample
    THEN sample.phase
    ELSE [i \in 1..Len(sample.amp) |-> 0]

parse_sample(sample, S) ==
    IF "amp" \notin DOMAIN sample
    THEN ParseError("KeyError")
    ELSE pad_or_truncate(sample.amp, default_phase(sample), S)

----------------------------------------------------------------------------
(* CSIDataPreprocessor.create_windows *)

label_map ==
    [empty |-> 0, present |-> 1, moving |-> 2, walking |-> 3, sitting |-> 4,
     standing |-> 5]

label_map_get_strict(label) ==
    IF label \in DOMAIN label_map THEN label_map[label] ELSE -1

\* label_map.get(label, 0)
label_map_get(label) ==
    IF label \in DOMAIN label_map THEN label_map[label] ELSE 0

by_label_add_mixed(by_label, sample, label) ==
    IF by_label = <<>>
    THEN <<[label |-> label, samples |-> <<sample>>]>>
    ELSE [by_label EXCEPT ![1].samples = Append(@, sample)]

\* One step of the grouping loop: by_label is an insertion-ordered dict, kept
\* as a sequence of [label, samples] entries in order of first insertion.
by_label_add(by_label, sample, label) ==
    LET at == {i \in 1..Len(by_label) : by_label[i].label = label}
    IN  IF at = {}
        THEN Append(by_label, [label |-> label, samples |-> <<sample>>])
        ELSE [by_label EXCEPT ![SetMin(at)].samples = Append(@, sample)]

\* for sample, label in zip(samples, labels): ...
RECURSIVE group_by_label(_, _, _)
group_by_label(samples, labels, by_label) ==
    IF samples = <<>> \/ labels = <<>>
    THEN by_label
    ELSE group_by_label(Tail(samples), Tail(labels),
                        by_label_add(by_label, Head(samples), Head(labels)))

\* np.array(rows) finds one shape exactly when all rows have the same length.
SameLengths(rows) == \A i, j \in 1..Len(rows) : Len(rows[i]) = Len(rows[j])

window_positions_short(n, W) == range_len(n - W)

\* range(len(features) - self.window_size + 1)
window_positions(n, W) == range_len(n - W + 1)

\* window = features[i:i + self.window_size]
window_at(features, i, W) == PySlice(features, i, i + W)

\* The sliding-window loop over one label's features: the windows, their
\* label ids, and each window's array shape (-1 columns for object rows).
sliding_windows(label, features, W) ==
    LET n == window_positions(Len(features), W)
        cols == IF SameLengths(features) THEN Len(features[1]) ELSE -1
    IN  [X |-> [k \in 1..n |-> window_at(features, k - 1, W)],
         y |-> [k \in 1..n |-> label_map_get(label)],
         shapes |-> [k \in 1..n |-> <<Len(window_at(features, k - 1, W)), cols>>]]

WindowsError(e) == [err |-> e, X |-> <<>>, y |-> <<>>, shapes |-> <<>>]

append_windows_front(acc, w) ==
    [acc EXCEPT !.X = w.X \o @, !.y = w.y \o @, !.shapes = w.shapes \o @]

\* X.append(window); y.append(label_map.get(label, 0)), for one label's windows
append_windows(acc, w) ==
    [acc EXCEPT !.X = @ \o w.X, !.y = @ \o w.y, !.shapes = @ \o w.shapes]

\* features = [self.parse_sample(s) for s in label_samples]: every sample is
\* parsed by itself, nothing of the group or the dataset enters the call.
group_features_pooled(label_samples, S) ==
    [i \in 1..Len(label_samples) |->
        LET r == parse_sample(label_samples[i], S)
        IN  [r EXCEPT !.vec = [e \in 1..Len(r.vec) |->
                IF r.vec[e][1] = "z"
                THEN <<"z", r.vec[e][2], r.vec[e][3], r.vec[e][4] * Len(label_samples)>>
                ELSE r.vec[e]]]]

group_features(label_samples, S) ==
    [i \in 1..Len(label_samples) |-> parse_sample(label_samples[i], S)]

\* for label, label_samples in by_label.items(): ...
RECURSIVE windows_by_label(_, _, _, _, _)
windows_by_label(by_label, W, S, ragged, acc) ==
    IF by_label = <<>>
    THEN acc
    ELSE LET group == Head(by_label)
             parsed == group_features(group.samples, S)
             failed == {i \in 1..Len(parsed) : parsed[i].err # "none"}
             features == [i \in 1..Len(parsed) |-> parsed[i].vec]
             w == sliding_windows(group.label, features, W)
         IN  IF failed # {}
             THEN WindowsError(parsed[SetMin(failed)].err)
             ELSE IF ~SameLengths(features) /\ ragged = "raise"
             THEN WindowsError("ValueError")
             ELSE windows_by_label(Tail(by_label), W, S, ragged,
                                   append_windows(acc, w))

\* return np.array(X), np.array(y)
np_array_X(w, ragged) ==
    IF w.err = "none" /\ ragged = "raise"
       /\ \E i, j \in 1..Len(w.shapes) : w.shapes[i] # w.shapes[j]
    THEN WindowsError("ValueError")
    ELSE w

create_windows(samples, labels, W, S, ragged) ==
    np_array_X(windows_by_label(group_by_label(samples, labels, <<>>), W, S, ragged,
                                [err |-> "none", X |-> <<>>, y |-> <<>>, shapes |-> <<>>]),
               ragged)

----------------------------------------------------------------------------
(* CSIDataPreprocessor.load_dataset *)

is_labeled_either(sample) == "label" \in DOMAIN sample \/ "amp" \in DOMAIN sample

\* if 'label' in sample and 'amp' in sample
is_labeled(sample) == "label" \in DOMAIN sample /\ "amp" \in DOMAIN sample

\* samples.append(sample); labels.append(sample['label']), then the windows
load_dataset(dataset, W, S, ragged) ==
    LET samples == SelectSeq(dataset, is_labeled)
        unlabeled == {i \in 1..Len(samples) : "label" \notin DOMAIN samples[i]}
        labels == [i \in 1..Len(samples) |-> samples[i].label]
        w == create_windows(samples, labels, W, S, ragged)
    IN  IF unlabeled # {}
        THEN [err |-> "KeyError", X |-> <<>>, y |-> <<>>,
              n_loaded |-> Len(dataset), n_labeled |-> 0]
        ELSE [err |-> w.err, X |-> w.X, y |-> w.y,
              n_loaded |-> Len(dataset), n_labeled |-> Len(samples)]

----------------------------------------------------------------------------
(* main: load, refuse an empty result, split, train. *)

\* --train-split, default 0.8, as the fraction TrainSplitNum / TrainSplitDen
TrainSplitNum == 4
TrainSplitDen == 5

\* split_idx = int(len(X) * args.train_split)
split_idx(n) == (n * TrainSplitNum) \div TrainSplitDen

----------------------------------------------------------------------------
(* The samples a dataset file is made of. *)

KnownLabels == {"empty", "present", "moving", "walking", "sitting", "standing"}
AllLabels == KnownLabels \cup {"jumping"}

\* Records as the collector and the generator write them: amp and phase of
\* one length, or no phase at all; one lacks its label and one its amp.  The
\* first phase entry tells the labels apart in the feature vectors.
SampleChoices ==
    {[label |-> "empty", amp |-> <<1, 3>>, phase |-> <<-3, 1>>],
     [label |-> "present", amp |-> <<1, 3>>, phase |-> <<-2, 1>>],
     [label |-> "moving", amp |-> <<1, 3>>, phase |-> <<-1, 1>>],
     [label |-> "walking", amp |-> <<1, 3>>, phase |-> <<1, 1>>],
     [label |-> "sitting", amp |-> <<1, 3>>, phase |-> <<0, 1>>],
     [label |-> "standing", amp |-> <<4, 2, 6>>, phase |-> <<2, 1, 1>>],
     [label |-> "jumping", amp |-> <<2>>, phase |-> <<3>>],
     [label |-> "sitting", amp |-> <<>>],
     [amp |-> <<1, 3>>, phase |-> <<1, -1>>],
     [label |-> "sitting", phase |-> <<1, -1>>]}

----------------------------------------------------------------------------
(* The state machine of one run of train_pose_model.py. *)

InitWith(Ws, Ss, Raggeds, start) ==
    /\ window_size \in Ws
    /\ num_subcarriers \in Ss
    /\ numpy_ragged \in Raggeds
    /\ data = <<>>
    /\ pc = start
    /\ X = <<>>
    /\ y = <<>>
    /\ n_loaded = 0
    /\ n_labeled = 0
    /\ raised = "none"
    /\ X_train = <<>>
    /\ X_val = <<>>
    /\ y_train = <<>>
    /\ y_val = <<>>
    /\ sample_arg = <<>>
    /\ features_ret = ParseError("none")

\* The dataset file gains one more sample before the run reads it.
AddSample(Choices) ==
    /\ pc = "file"
    /\ Len(data) < MaxData
    /\ \E s \in Choices : data' = Append(data, s)
    /\ UNCHANGED toolVars
    /\ UNCHANGED <<window_size, num_subcarriers, numpy_ragged, pc, X, y, n_loaded,
                   n_labeled, raised, X_train, X_val, y_train, y_val, sample_arg,
                   features_ret>>

\* X, y = preprocessor.load_dataset(args.dataset)
LoadDataset ==
    /\ pc = "file"
    /\ LET r == load_dataset(data, window_size, num_subcarriers, numpy_ragged)
       IN  /\ n_loaded' = r.n_loaded
           /\ n_labeled' = r.n_labeled
           /\ raised' = r.err
           /\ IF r.err = "none"
              THEN pc' = "loaded" /\ X' = r.X /\ y' = r.y
              ELSE pc' = "raised" /\ UNCHANGED <<X, y>>
    /\ UNCHANGED toolVars
    /\ UNCHANGED <<window_size, num_subcarriers, numpy_ragged, data, X_train, X_val,
                   y_train, y_val, sample_arg, features_ret>>

\* if len(X) == 0: sys.exit(1)
ExitNoData ==
    /\ pc = "loaded"
    /\ Len(X) = 0
    /\ pc' = "exit1"
    /\ UNCHANGED toolVars
    /\ UNCHANGED <<window_size, num_subcarriers, numpy_ragged, data, X, y, n_loaded,
                   n_labeled, raised, X_train, X_val, y_train, y_val, sample_arg,
                   features_ret>>

SplitData_unchecked ==
    /\ pc = "loaded"
    /\ X_train' = PySlice(X, 0, split_idx(Len(X)))
    /\ X_val' = PySlice(X, split_idx(Len(X)), Len(X))
    /\ y_train' = PySlice(y, 0, split_idx(Len(X)))
    /\ y_val' = PySlice(y, split_idx(Len(X)), Len(y))
    /\ pc' = "split"
    /\ UNCHANGED toolVars
    /\ UNCHANGED <<window_size, num_subcarriers, numpy_ragged, data, X, y, n_loaded,
                   n_labeled, raised, sample_arg, features_ret>>

\* X_train, X_val = X[:split_idx], X[split_idx:], and the same for y
SplitData ==
    /\ pc = "loaded"
    /\ Len(X) # 0
    /\ X_train' = PySlice(X, 0, split_idx(Len(X)))
    /\ X_val' = PySlice(X, split_idx(Len(X)), Len(X))
    /\ y_train' = PySlice(y, 0, split_idx(Len(X)))
    /\ y_val' = PySlice(y, split_idx(Len(X)), Len(y))
    /\ pc' = "split"
    /\ UNCHANGED toolVars
    /\ UNCHANGED <<window_size, num_subcarriers, numpy_ragged, data, X, y, n_loaded,
                   n_labeled, raised, sample_arg, features_ret>>

\* model, history = train_model(X_train, y_train, X_val, y_val, ...)
TrainModel ==
    /\ pc = "split"
    /\ pc' = "training"
    /\ UNCHANGED toolVars
    /\ UNCHANGED <<window_size, num_subcarriers, numpy_ragged, data, X, y, n_loaded,
                   n_labeled, raised, X_train, X_val, y_train, y_val, sample_arg,
                   features_ret>>

\* No call has been made on the synthetic generator.
GenIdle ==
    /\ gen_num_subcarriers = 1
    /\ rng = 0
    /\ rng_b = 0
    /\ gen_call = [fn |-> "none", n |-> 0, rng0 |-> 0]
    /\ gen_ret = <<>>
    /\ gen_ret_b = <<>>

\* json.loads has produced no object: collect_packet returns None.
PyNone == [py_none |-> TRUE]

\* Nothing has been read from the serial link.
LinkIdle ==
    /\ link_lines = <<>>
    /\ rc_pos = 0
    /\ rc_state = "reading"
    /\ rc_raised = "none"
    /\ rc_packet_count = 0
    /\ rc_out = <<>>
    /\ col_pos = 0
    /\ col_ret = PyNone
    /\ col_packets = <<>>

\* No dataset is loaded in the analyzer.
StatIdle ==
    /\ an_data = <<>>
    /\ an_call = [fn |-> "none"]
    /\ an_ret = [err |-> "none"]

\* collect_csi_dataset.main has not been started.
CollectIdle ==
    /\ main_pc = "idle"
    /\ args = [append |-> FALSE, dataset |-> FALSE, label |-> "", description |-> ""]
    /\ existing = [readable |-> FALSE]
    /\ ser = "none"
    /\ pose_data = <<>>
    /\ session = [label |-> "", description |-> "", session_data |-> <<>>]
    /\ sessions = <<>>
    /\ saved = [written |-> FALSE]
    /\ exit_status = [code |-> 0, raised |-> "none"]

\* load_wifi_env has not been called.
EnvIdle ==
    /\ env_file = [exists |-> FALSE]
    /\ os_environ = <<>>
    /\ env_call = [fn |-> "none"]
    /\ env_ret = [err |-> "none"]

ToolsIdle == GenIdle /\ LinkIdle /\ StatIdle /\ CollectIdle /\ EnvIdle

Init == InitWith(1..MaxW, 1..MaxS, {"raise"}, "file") /\ ToolsIdle

Next ==
    \/ AddSample(SampleChoices)
    \/ LoadDataset
    \/ ExitNoData
    \/ SplitData
    \/ TrainModel

Spec == Init /\ [][Next]_vars

----------------------------------------------------------------------------
(* A direct call of parse_sample on any amplitude and any phase. *)

AmpValues == {1, 3}
PhaseValues == {-1, 2}

SeqsUpTo(V, n) == UNION {[1..k -> V] : k \in 0..n}

\* Amplitudes of every length up to MaxS + 1, with a phase of any such length
\* or with no phase.
ParseChoices ==
    {[amp |-> a, phase |-> p] : a \in SeqsUpTo(AmpValues, MaxS + 1),
                                p \in SeqsUpTo(PhaseValues, MaxS + 1)}
    \cup {[amp |-> a] : a \in SeqsUpTo(AmpValues, MaxS + 1)}

\* features = preprocessor.parse_sample(sample)
ParseSample ==
    /\ pc = "call"
    /\ \E s \in ParseChoices :
          /\ sample_arg' = s
          /\ features_ret' = parse_sample(s, num_subcarriers)
    /\ pc' = "returned"
    /\ UNCHANGED toolVars
    /\ UNCHANGED <<window_size, num_subcarriers, numpy_ragged, data, X, y, n_loaded,
                   n_labeled, raised, X_train, X_val, y_train, y_val>>

InitParse == InitWith({1}, 1..MaxS, {"raise"}, "call") /\ ToolsIdle

NextParse == ParseSample

SpecParse == InitParse /\ [][NextParse]_vars

----------------------------------------------------------------------------
(* A run with any integers as --window-size and --num-subcarriers. *)

ConfigChoices ==
    {[label |-> "sitting", amp |-> <<1, 3>>, phase |-> <<0, 1>>],
     [label |-> "sitting", amp |-> <<2>>, phase |-> <<0>>],
     [label |-> "empty", amp |-> <<1, 3>>, phase |-> <<-3, 1>>]}

InitConfig ==
    InitWith((0 - MaxInvalid)..MaxW, (0 - MaxInvalid)..MaxS, {"raise", "object"}, "file")
    /\ ToolsIdle

NextConfig ==
    \/ AddSample(ConfigChoices)
    \/ LoadDataset
    \/ ExitNoData
    \/ SplitData
    \/ TrainModel

SpecConfig == InitConfig /\ [][NextConfig]_vars

----------------------------------------------------------------------------
(* generate_synthetic_data.py: SyntheticCSIGenerator.                      *)
(* Real numbers are held in thousandths: 20.0 is 20000, 0.05 is 50.        *)

\* np.random keeps one global state; every draw reads it and advances it.
rng_next(r) == (5 * r + 3) % (MaxSeed + 1)

\* Standard normal deviates, the far tails included.
Deviates == <<-20, -1, 0, 1, 20>>

standard_deviate(r) == Deviates[(r % Len(Deviates)) + 1]

\* np.random.normal(loc, scale)
np_random_normal(loc, scale, r) ==
    [value |-> loc + scale * standard_deviate(r), rng |-> rng_next(r)]

\* np.random.normal(loc, scale, size)
RECURSIVE np_random_normal_array(_, _, _, _)
np_random_normal_array(loc, scale, size, r) ==
    IF size <= 0
    THEN [value |-> <<>>, rng |-> r]
    ELSE LET d == np_random_normal(loc, scale, r)
             rest == np_random_normal_array(loc, scale, size - 1, d.rng)
         IN  [value |-> <<d.value>> \o rest.value, rng |-> rest.rng]

\* np.random.randint(low, high): an integer of [low, high).
np_random_randint(low, high, r) ==
    [value |-> low + (((high - low) - (r % (high - low))) % (high - low)),
     rng |-> rng_next(r)]

TsLow == 100000
TsHigh == 999999
Pi1000 == 3142

\* np.sin and np.cos of t twentieths of a turn, in thousandths.
SinTable ==
    <<0, 309, 588, 809, 951, 1000, 951, 809, 588, 309,
      0, -309, -588, -809, -951, -1000, -951, -809, -588, -309>>

np_sin(t) == SinTable[(t % 20) + 1]

\* np.clip(amp, 0, None)
amp_unclipped(amp) == amp

amp_clip(amp) == [i \in 1..Len(amp) |-> Max2(amp[i], 0)]

\* np.clip(phase, -np.pi, np.pi)
phase_clip(phase) ==
    [i \in 1..Len(phase) |-> Min2(Max2(phase[i], 0 - Pi1000), Pi1000)]

\* The sample dict: 'ts' is drawn first, then 'rssi'.
make_sample(amp, phase, rssi_loc, rssi_scale, label, description, S, r) ==
    LET t == np_random_randint(TsLow, TsHigh, r)
        rs == np_random_normal(rssi_loc, rssi_scale, t.rng)
    IN  [sample |-> [ts |-> t.value, rssi |-> rs.value, num |-> S, amp |-> amp,
                     phase |-> phase, label |-> label, description |-> description],
         rng |-> rs.rng]

\* One iteration of a class whose distribution does not depend on i.
stationary_sample(m, S, r) ==
    LET a == np_random_normal_array(m.amp_loc, m.amp_scale, S, r)
        ph == np_random_normal_array(0, m.phase_scale, S, a.rng)
    IN  make_sample(amp_clip(a.value), ph.value, m.rssi_loc, m.rssi_scale,
                    m.label, m.description, S, ph.rng)

\* for _ in range(num_samples): ... samples.append(sample)
RECURSIVE stationary_loop(_, _, _, _, _)
stationary_loop(m, num_samples, S, r, samples) ==
    IF num_samples <= 0
    THEN [samples |-> samples, rng |-> r]
    ELSE LET one == stationary_sample(m, S, r)
         IN  stationary_loop(m, num_samples - 1, S, one.rng, Append(samples, one.sample))

generate_empty_room(num_samples, S, r) ==
    stationary_loop([amp_loc |-> 20000, amp_scale |-> 1500, phase_scale |-> 50,
                     rssi_loc |-> -50000, rssi_scale |-> 2000, label |-> "empty",
                     description |-> "Empty room - no person present"],
                    num_samples, S, r, <<>>)

generate_person_present(num_samples, S, r) ==
    stationary_loop([amp_loc |-> 25000, amp_scale |-> 3000, phase_scale |-> 200,
                     rssi_loc |-> -42000, rssi_scale |-> 3000, label |-> "present",
                     description |-> "Person present, sitting or standing still"],
                    num_samples, S, r, <<>>)

\* for i in range(num_samples): the phase centre phase_offset is a local of
\* the call, advanced by one draw before each sample's phase.
RECURSIVE moving_loop(_, _, _, _, _, _)
moving_loop(i, num_samples, phase_offset, S, r, samples) ==
    IF i >= num_samples
    THEN [samples |-> samples, rng |-> r]
    ELSE LET base == 25000 + 5 * np_sin(i)
             a == np_random_normal_array(base, 4000, S, r)
             step == np_random_normal(0, 100, a.rng)
             offset == phase_offset + step.value
             ph == np_random_normal_array(offset, 300, S, step.rng)
             one == make_sample(amp_clip(a.value), phase_clip(ph.value), -40000, 5000,
                                "moving", "Person moving around", S, ph.rng)
         IN  moving_loop(i + 1, num_samples, offset, S, one.rng,
                         Append(samples, one.sample))

generate_moving_drifted(num_samples, S, r) == moving_loop(0, num_samples, 100, S, r, <<>>)

generate_moving(num_samples, S, r) == moving_loop(0, num_samples, 0, S, r, <<>>)

\* walking_phase = 2 * pi * i / 10 is 2i twentieths of a turn.
RECURSIVE walking_loop(_, _, _, _, _)
walking_loop(i, num_samples, S, r, samples) ==
    IF i >= num_samples
    THEN [samples |-> samples, rng |-> r]
    ELSE LET amplitude_mod == 8 * np_sin(2 * i) + 3 * np_sin(4 * i)
             a == np_random_normal_array(25000 + amplitude_mod, 3500, S, r)
             ph == np_random_normal_array(0, 250 + (150 * np_sin(2 * i)) \div 1000,
                                          S, a.rng)
             one == make_sample(amp_clip(a.value), phase_clip(ph.value), -38000, 4000,
                                "walking", "Person walking back and forth", S, ph.rng)
         IN  walking_loop(i + 1, num_samples, S, one.rng, Append(samples, one.sample))

generate_walking_continuing(num_samples, S, r) ==
    walking_loop(1, num_samples + 1, S, r, <<>>)

generate_walking(num_samples, S, r) == walking_loop(0, num_samples, S, r, <<>>)

generate_sitting(num_samples, S, r) ==
    stationary_loop([amp_loc |-> 23000, amp_scale |-> 2200, phase_scale |-> 150,
                     rssi_loc |-> -44000, rssi_scale |-> 2000, label |-> "sitting",
                     description |-> "Person sitting still"],
                    num_samples, S, r, <<>>)

generate_standing(num_samples, S, r) ==
    stationary_loop([amp_loc |-> 24000, amp_scale |-> 2800, phase_scale |-> 220,
                     rssi_loc |-> -43000, rssi_scale |-> 2500, label |-> "standing",
                     description |-> "Person standing still"],
                    num_samples, S, r, <<>>)

\* The generator method behind each class label.
generate_class(label, num_samples, S, r) ==
    CASE label = "empty" -> generate_empty_room(num_samples, S, r)
      [] label = "present" -> generate_person_present(num_samples, S, r)
      [] label = "moving" -> generate_moving(num_samples, S, r)
      [] label = "walking" -> generate_walking(num_samples, S, r)
      [] label = "sitting" -> generate_sitting(num_samples, S, r)
      [] label = "standing" -> generate_standing(num_samples, S, r)

GenerationOrder == <<"empty", "present", "moving", "walking", "sitting", "standing">>

\* all_samples.extend(self.generate_...(samples_per_class)), six times.
RECURSIVE generate_all_classes(_, _, _, _, _)
generate_all_classes(order, samples_per_class, S, r, all_samples) ==
    IF order = <<>>
    THEN [samples |-> all_samples, rng |-> r]
    ELSE LET one == generate_class(Head(order), samples_per_class, S, r)
         IN  generate_all_classes(Tail(order), samples_per_class, S, one.rng,
                                  all_samples \o one.samples)

\* x[i], x[j] = x[j], x[i]
swap_overwrite(x, i, j) == [x EXCEPT ![i] = x[j]]

swap(x, i, j) == [x EXCEPT ![i] = x[j], ![j] = x[i]]

\* np.random.shuffle: for i in reversed(range(1, n)): j = a draw of 0..i; swap.
RECURSIVE np_random_shuffle(_, _, _)
np_random_shuffle(x, i, r) ==
    IF i < 1
    THEN [value |-> x, rng |-> r]
    ELSE np_random_shuffle(swap(x, i + 1, (r % (i + 1)) + 1), i - 1, rng_next(r))

\* The dataset dict built around the shuffled samples.
build_dataset(all, now) ==
    LET shuffled == np_random_shuffle(all.samples, Len(all.samples) - 1, all.rng)
    IN  [dataset |->
            [metadata |-> [generated_at |-> now,
                           total_packets |-> Len(shuffled.value),
                           labels |-> {shuffled.value[i].label :
                                          i \in 1..Len(shuffled.value)},
                           synthetic |-> TRUE],
             data |-> shuffled.value],
         rng |-> shuffled.rng]

generate_dataset_reseeded(samples_per_class, S, r, now) ==
    build_dataset(generate_all_classes(GenerationOrder, samples_per_class, S,
                                       (r + now) % (MaxSeed + 1), <<>>), now)

generate_dataset(samples_per_class, S, r, now) ==
    build_dataset(generate_all_classes(GenerationOrder, samples_per_class, S, r, <<>>),
                  now)

----------------------------------------------------------------------------
(* Calls on one generator, made in two runs that start from the same seed  *)
(* and read different wall clocks.                                         *)

Clock == 1..MaxClock

TrainIdle == InitWith({1}, {1}, {"raise"}, "idle")

InitGen ==
    /\ TrainIdle
    /\ CollectIdle
    /\ EnvIdle
    /\ LinkIdle
    /\ StatIdle
    /\ gen_num_subcarriers \in 1..MaxS
    /\ rng \in 0..MaxSeed
    /\ rng_b = rng
    /\ gen_call = [fn |-> "none", n |-> 0, rng0 |-> 0]
    /\ gen_ret = <<>>
    /\ gen_ret_b = <<>>

\* generator.generate_<class>(n)
GenerateClass ==
    \E label \in KnownLabels, n \in 0..MaxK :
        LET a == generate_class(label, n, gen_num_subcarriers, rng)
            b == generate_class(label, n, gen_num_subcarriers, rng_b)
        IN  /\ gen_call' = [fn |-> label, n |-> n, rng0 |-> rng]
            /\ gen_ret' = a.samples
            /\ rng' = a.rng
            /\ gen_ret_b' = b.samples
            /\ rng_b' = b.rng
            /\ UNCHANGED <<gen_num_subcarriers, trainVars, linkVars, statVars, collectVars,
                         envVars>>

\* generator.generate_dataset(k)
GenerateDataset ==
    \E k \in 0..MaxK, now \in Clock, now_b \in Clock :
        LET a == generate_dataset(k, gen_num_subcarriers, rng, now)
            b == generate_dataset(k, gen_num_subcarriers, rng_b, now_b)
        IN  /\ gen_call' = [fn |-> "generate_dataset", n |-> k, rng0 |-> rng]
            /\ gen_ret' = a.dataset
            /\ rng' = a.rng
            /\ gen_ret_b' = b.dataset
            /\ rng_b' = b.rng
            /\ UNCHANGED <<gen_num_subcarriers, trainVars, linkVars, statVars, collectVars,
                         envVars>>

NextGen ==
    \/ GenerateClass
    \/ GenerateDataset

SpecGen == InitGen /\ [][NextGen]_vars

----------------------------------------------------------------------------
(* The two readers of the serial link: read_csi.main and                   *)
(* CSICollector.collect_packet.                                            *)

\* What ser.readline().decode().strip() can be: nothing, a log line of the
\* firmware, text that starts with '{' and is not JSON, or a JSON object.
LinkChoices ==
    {[kind |-> "blank"],
     [kind |-> "log"],
     [kind |-> "garbled"],
     [kind |-> "json", obj |-> [ts |-> 1, rssi |-> -40, num |-> 2, amp |-> <<3, 5>>]],
     [kind |-> "json", obj |-> [ts |-> 2, amp |-> <<3, 5>>]],
     [kind |-> "json", obj |-> [ts |-> 3, rssi |-> -40, amp |-> <<>>]],
     [kind |-> "json", obj |-> [rssi |-> -40, amp |-> <<4>>]],
     [kind |-> "json", obj |-> [ts |-> 4, rssi |-> -40]]}

\* if not line or not line.startswith('{')
starts_with_brace(line) == line.kind \in {"garbled", "json"}

\* json.loads(line): the object, or JSONDecodeError.
json_loads(line) ==
    IF line.kind = "json"
    THEN [err |-> "none", data |-> line.obj]
    ELSE [err |-> "JSONDecodeError", data |-> PyNone]

\* collect_packet: the parsed object if it has 'ts' and 'amp', else None.
collect_packet(line) ==
    IF ~starts_with_brace(line)
    THEN PyNone
    ELSE LET parsed == json_loads(line)
         IN  IF parsed.err # "none"
             THEN PyNone
             ELSE IF "ts" \in DOMAIN parsed.data /\ "amp" \in DOMAIN parsed.data
             THEN parsed.data
             ELSE PyNone

\* One iteration of read_csi.main's loop on one line: skipped, counted and
\* shown, or ended by the exception the summary raises.
read_csi_line(line) ==
    IF ~starts_with_brace(line)
    THEN [step |-> "skip", raised |-> "none"]
    ELSE LET parsed == json_loads(line)
         IN  IF parsed.err # "none"
             THEN [step |-> "skip", raised |-> "none"]
             ELSE IF \/ "ts" \notin DOMAIN parsed.data
                     \/ "rssi" \notin DOMAIN parsed.data
                     \/ "amp" \notin DOMAIN parsed.data
             THEN [step |-> "skip", raised |-> "none"]
             ELSE IF Len(parsed.data.amp) = 0
             THEN [step |-> "count", raised |-> "ZeroDivisionError"]
             ELSE [step |-> "show", raised |-> "none"]

MaxLines == 3

InitLink ==
    /\ TrainIdle
    /\ CollectIdle
    /\ EnvIdle
    /\ GenIdle
    /\ StatIdle
    /\ LinkIdle

\* The device writes one more line.
DeviceEmit ==
    /\ Len(link_lines) < MaxLines
    /\ \E line \in LinkChoices : link_lines' = Append(link_lines, line)
    /\ UNCHANGED <<rc_pos, rc_state, rc_raised, rc_packet_count, rc_out,
                   col_pos, col_ret, col_packets>>
    /\ UNCHANGED <<trainVars, genVars, statVars, collectVars, envVars>>

\* read_csi.main: one pass of the while True loop.
ReadCsiLine ==
    /\ rc_state = "reading"
    /\ rc_pos < Len(link_lines)
    /\ LET line == link_lines[rc_pos + 1]
           r == read_csi_line(line)
       IN  /\ rc_pos' = rc_pos + 1
           /\ rc_packet_count' = IF r.step = "skip" THEN rc_packet_count
                                 ELSE rc_packet_count + 1
           /\ rc_out' = IF r.step = "show" THEN Append(rc_out, line.obj) ELSE rc_out
           /\ rc_raised' = r.raised
           /\ rc_state' = IF r.raised = "none" THEN "reading" ELSE "raised"
    /\ UNCHANGED <<link_lines, col_pos, col_ret, col_packets>>
    /\ UNCHANGED <<trainVars, genVars, statVars, collectVars, envVars>>

\* read_csi.main: Ctrl+C, caught by except KeyboardInterrupt.
ReadCsiInterrupt ==
    /\ rc_state = "reading"
    /\ rc_state' = "interrupted"
    /\ UNCHANGED <<link_lines, rc_pos, rc_raised, rc_packet_count, rc_out,
                   col_pos, col_ret, col_packets>>
    /\ UNCHANGED <<trainVars, genVars, statVars, collectVars, envVars>>

\* CSICollector.collect_packet, called from the collection loop.
CollectPacket ==
    /\ col_pos < Len(link_lines)
    /\ LET packet == collect_packet(link_lines[col_pos + 1])
       IN  /\ col_pos' = col_pos + 1
           /\ col_ret' = packet
           /\ col_packets' = IF packet = PyNone THEN col_packets
                             ELSE Append(col_packets, packet)
    /\ UNCHANGED <<link_lines, rc_pos, rc_state, rc_raised, rc_packet_count, rc_out>>
    /\ UNCHANGED <<trainVars, genVars, statVars, collectVars, envVars>>

NextLink ==
    \/ DeviceEmit
    \/ ReadCsiLine
    \/ ReadCsiInterrupt
    \/ CollectPacket

SpecLink == InitLink /\ [][NextLink]_vars

----------------------------------------------------------------------------
(* analyze_csi.py: CSIAnalyzer.                                            *)
(* A statistic is an exact number [num, den, root]: the root-th root of    *)
(* num / den in lowest terms; den = 0 is numpy's nan.                      *)

RECURSIVE GCD(_, _)
GCD(a, b) == IF b = 0 THEN a ELSE GCD(b, a % b)

Zero == [num |-> 0, den |-> 1, root |-> 1]
NaN == [num |-> 0, den |-> 0, root |-> 1]

Rat(n, d) ==
    IF d = 0
    THEN NaN
    ELSE LET g == GCD(IF n < 0 THEN 0 - n ELSE n, d)
         IN  [num |-> n \div g, den |-> d \div g, root |-> 1]

Sqrt(r) == IF r.num = 0 THEN r ELSE [r EXCEPT !.root = 2]

\* np.mean, np.var and np.std (population); nan with a warning on an empty array.
np_mean(a) == Rat(Sum(a), Len(a))
np_var_sample(a) ==
    Rat(Len(a) * Sum(Squares(a)) - Sum(a) * Sum(a), Len(a) * (Len(a) - 1))

np_var(a) == Rat(Len(a) * Sum(Squares(a)) - Sum(a) * Sum(a), Len(a) * Len(a))
np_std(a) == Sqrt(np_var(a))

Sorted(a) == SortSeq(a, LAMBDA u, v : u < v)

\* np.percentile(a, q): linear interpolation at position (n - 1) * q / 100.
np_percentile(a, q) ==
    LET srt == Sorted(a)
        h == (Len(a) - 1) * q
        lo == (h \div 100) + 1
        rem == h % 100
    IN  IF rem = 0
        THEN Rat(srt[lo], 1)
        ELSE Rat(100 * srt[lo] + rem * (srt[lo + 1] - srt[lo]), 100)

np_median(a) == np_percentile(a, 50)

np_min(a) == CHOOSE m \in {a[i] : i \in 1..Len(a)} : \A i \in 1..Len(a) : m <= a[i]
np_max(a) == CHOOSE m \in {a[i] : i \in 1..Len(a)} : \A i \in 1..Len(a) : m >= a[i]

\* np.mean(phase) if len(phase) > 0 else 0
phase_unguarded(stat, phase) == stat

phase_or_zero(stat, phase) == IF Len(phase) > 0 THEN stat ELSE Zero

FeaturesError(e) == [err |-> e]

\* sample['amp'] raises KeyError; np.min of an empty array raises ValueError.
compute_features(sample) ==
    IF "amp" \notin DOMAIN sample
    THEN FeaturesError("KeyError")
    ELSE LET amp == sample.amp
             phase == IF "phase" \in DOMAIN sample THEN sample.phase ELSE <<>>
         IN  IF Len(amp) = 0
             THEN FeaturesError("ValueError")
             ELSE [err |-> "none",
                   features |->
                      [amp_mean |-> np_mean(amp),
                       amp_std |-> np_std(amp),
                       amp_var |-> np_var(amp),
                       amp_min |-> np_min(amp),
                       amp_max |-> np_max(amp),
                       amp_range |-> np_max(amp) - np_min(amp),
                       amp_median |-> np_median(amp),
                       amp_q25 |-> np_percentile(amp, 25),
                       amp_q75 |-> np_percentile(amp, 75),
                       phase_mean |-> phase_or_zero(np_mean(phase), phase),
                       phase_std |-> phase_or_zero(np_std(phase), phase),
                       phase_var |-> phase_or_zero(np_var(phase), phase),
                       rssi |-> IF "rssi" \in DOMAIN sample THEN sample.rssi ELSE 0,
                       num_subcarriers |-> IF "num" \in DOMAIN sample
                                           THEN sample.num ELSE Len(amp)]]

\* sample.get('label', 'unknown')
label_or_unknown(sample) ==
    IF "label" \in DOMAIN sample THEN sample.label ELSE "unknown"

\* The order of Python's sorted() on the label strings that occur.
label_sort_key(l) ==
    CASE l = "empty" -> 1
      [] l = "jumping" -> 2
      [] l = "moving" -> 3
      [] l = "present" -> 4
      [] l = "sitting" -> 5
      [] l = "standing" -> 6
      [] l = "unknown" -> 7
      [] l = "walking" -> 8

\* sorted(label_groups.items()): the labels in ascending order.
RECURSIVE sorted_labels(_)
sorted_labels(Ls) ==
    IF Ls = {}
    THEN <<>>
    ELSE LET l == CHOOSE c \in Ls : \A o \in Ls : label_sort_key(c) <= label_sort_key(o)
         IN  <<l>> \o sorted_labels(Ls \ {l})

labels_of(samples) == {label_or_unknown(samples[i]) : i \in 1..Len(samples)}

\* label_groups[label]: the samples of one label, in data order.
label_group(samples, l) == SelectSeq(samples, LAMBDA smp : label_or_unknown(smp) = l)

\* [self.compute_features(s) for s in samples]: the first exception ends it.
features_of_all(samples) ==
    LET each == [i \in 1..Len(samples) |-> compute_features(samples[i])]
        failed == {i \in 1..Len(samples) : each[i].err # "none"}
    IN  IF failed # {}
        THEN [err |-> each[SetMin(failed)].err, list |-> <<>>]
        ELSE [err |-> "none", list |-> [i \in 1..Len(samples) |-> each[i].features]]

\* analyze_by_label: per label in sorted order, the count and the features.
analyze_by_label(samples) ==
    LET order == sorted_labels(labels_of(samples))
        per == [k \in 1..Len(order) |-> features_of_all(label_group(samples, order[k]))]
        failed == {k \in 1..Len(order) : per[k].err # "none"}
    IN  IF failed # {}
        THEN [err |-> per[SetMin(failed)].err, report |-> <<>>]
        ELSE [err |-> "none",
              report |-> [k \in 1..Len(order) |->
                            [label |-> order[k],
                             count |-> Len(label_group(samples, order[k])),
                             features_list |-> per[k].list]]]

\* if len(features_list) < window_size: ... continue
not_enough_samples_strict(n, window) == n <= window

not_enough_samples(n, window) == n < window

\* np.std([f[key] for f in window]) of every window position; the value is
\* kept as the list it is the deviation of.
window_deviations(values, window) ==
    [i \in 1..range_len(Len(values) - window + 1) |->
        [std_of |-> SubSeq(values, i, i + window - 1)]]

\* One label of compute_temporal_features: skipped, or its two sequences and
\* the printed stability flag mean(amp_std_variance) < 5.0.
temporal_entry(label, features_list, window) ==
    IF not_enough_samples(Len(features_list), window)
    THEN [label |-> label, skipped |-> TRUE]
    ELSE LET amp_std_variance ==
                 window_deviations([i \in 1..Len(features_list) |->
                                       features_list[i].amp_std], window)
             phase_std_variance ==
                 window_deviations([i \in 1..Len(features_list) |->
                                       features_list[i].phase_std], window)
         IN  [label |-> label, skipped |-> FALSE,
              amp_std_variance |-> amp_std_variance,
              phase_std_variance |-> phase_std_variance,
              stability |-> [mean_below_5_of |-> amp_std_variance]]

\* compute_temporal_features: the features of every sample are computed
\* first, in data order, then each label is reported in sorted order.
compute_temporal_features(samples, window) ==
    LET all == features_of_all(samples)
        order == sorted_labels(labels_of(samples))
    IN  IF all.err # "none"
        THEN [err |-> all.err, report |-> <<>>]
        ELSE [err |-> "none",
              report |-> [k \in 1..Len(order) |->
                            temporal_entry(order[k],
                                           features_of_all(label_group(samples, order[k])).list,
                                           window)]]

\* export_features: the features of every sample with its label and timestamp.
export_features(samples) ==
    LET all == features_of_all(samples)
    IN  IF all.err # "none"
        THEN [err |-> all.err, file |-> <<>>]
        ELSE [err |-> "none",
              file |->
                 [metadata |-> [num_samples |-> Len(samples)],
                  data |-> [i \in 1..Len(samples) |->
                              all.list[i] @@
                              [label |-> label_or_unknown(samples[i]),
                               timestamp |-> IF "ts" \in DOMAIN samples[i]
                                             THEN samples[i].ts ELSE 0]]]]

----------------------------------------------------------------------------
(* Calls on an analyzer that has loaded a dataset. *)

\* Records with a non-empty amplitude; label, phase, rssi, num and ts optional.
StatChoices ==
    {[label |-> "sitting", ts |-> 7, rssi |-> -40, num |-> 5,
      amp |-> <<1, 2, 3, 4, 5>>, phase |-> <<1, -1, 1, -1, 0>>],
     [label |-> "sitting", amp |-> <<2, 4>>, phase |-> <<>>],
     [label |-> "empty", ts |-> 9, rssi |-> -50, num |-> 64,
      amp |-> <<3, 3>>, phase |-> <<2, 0>>],
     [label |-> "empty", rssi |-> -52, amp |-> <<1, 5, 3>>],
     [amp |-> <<4>>, num |-> 1]}

\* Records that fail the schema: no 'amp', or an empty amplitude.
MalformedChoices ==
    {[label |-> "sitting", ts |-> 8, rssi |-> -41],
     [label |-> "empty", ts |-> 6, amp |-> <<>>, phase |-> <<>>]}

InitStats ==
    /\ TrainIdle
    /\ CollectIdle
    /\ EnvIdle
    /\ GenIdle
    /\ LinkIdle
    /\ StatIdle

\* One more record in the dataset file the analyzer loads.
AnAddSample(Choices) ==
    /\ an_call.fn = "none"
    /\ Len(an_data) < MaxData
    /\ \E smp \in Choices : an_data' = Append(an_data, smp)
    /\ UNCHANGED <<an_call, an_ret>>
    /\ UNCHANGED <<trainVars, genVars, linkVars, collectVars, envVars>>

\* analyzer.compute_features(sample) on a record of the dataset.
ComputeFeatures ==
    /\ \E i \in 1..Len(an_data) :
          /\ an_call' = [fn |-> "compute_features", sample |-> an_data[i]]
          /\ an_ret' = compute_features(an_data[i])
    /\ UNCHANGED an_data
    /\ UNCHANGED <<trainVars, genVars, linkVars, collectVars, envVars>>

AnalyzeByLabel ==
    /\ an_call' = [fn |-> "analyze_by_label"]
    /\ an_ret' = analyze_by_label(an_data)
    /\ UNCHANGED an_data
    /\ UNCHANGED <<trainVars, genVars, linkVars, collectVars, envVars>>

ComputeTemporalFeatures ==
    /\ \E window \in 1..MaxW :
          /\ an_call' = [fn |-> "compute_temporal_features", window_size |-> window]
          /\ an_ret' = compute_temporal_features(an_data, window)
    /\ UNCHANGED an_data
    /\ UNCHANGED <<trainVars, genVars, linkVars, collectVars, envVars>>

ExportFeatures ==
    /\ an_call' = [fn |-> "export_features"]
    /\ an_ret' = export_features(an_data)
    /\ UNCHANGED an_data
    /\ UNCHANGED <<trainVars, genVars, linkVars, collectVars, envVars>>

NextStats ==
    \/ AnAddSample(StatChoices)
    \/ ComputeFeatures
    \/ AnalyzeByLabel
    \/ ComputeTemporalFeatures
    \/ ExportFeatures

SpecStats == InitStats /\ [][NextStats]_vars

\* The same calls on a dataset that may hold records failing the schema.
NextStatsRaw ==
    \/ AnAddSample(StatChoices \cup MalformedChoices)
    \/ ComputeFeatures
    \/ AnalyzeByLabel
    \/ ComputeTemporalFeatures
    \/ ExportFeatures

SpecStatsRaw == InitStats /\ [][NextStatsRaw]_vars

----------------------------------------------------------------------------
(* collect_csi_dataset.py: main, CSICollector.collect_with_label,            *)
(* interactive_mode and save_dataset.                                        *)

MaxPackets == 2
MaxSessions == 2

\* packet['label'] = label; packet['description'] = description;
\* packet['timestamp_utc'] = datetime.utcnow().isoformat()
label_packet(packet, label, description, now) ==
    [label |-> label, description |-> description, timestamp_utc |-> now] @@ packet

\* self.pose_data.extend(session_data)
extend_pose_data_replacing(packets, session_data) == session_data

extend_pose_data(packets, session_data) == packets \o session_data

\* list(set(d['label'] for d in self.pose_data))
dataset_labels_of_first(packets) == {packets[1].label}

dataset_labels(packets) == {packets[i].label : i \in 1..Len(packets)}

\* d['label'] raises KeyError for a sample without label.
all_labelled(packets) == \A i \in 1..Len(packets) : "label" \in DOMAIN packets[i]

\* The dataset dict save_dataset dumps.
dataset_of(packets, now) ==
    [metadata |-> [collected_at |-> now,
                   total_packets |-> Len(packets),
                   labels |-> dataset_labels(packets)],
     data |-> packets]

\* interactive_mode: the poses table, choice -> (label, description).
poses ==
    [c1 |-> <<"empty", "Empty room - no person present">>,
     c2 |-> <<"sitting", "Person sitting still in chair">>,
     c3 |-> <<"standing", "Person standing still">>,
     c4 |-> <<"walking", "Person walking back and forth">>,
     c5 |-> <<"waving", "Person standing and waving arms">>,
     c6 |-> <<"crouching", "Person crouching down">>]

\* What the user types at the prompt: a pose, 'q', or something else.
PromptChoices == {"c1", "c5", "q", "x"}

\* The lines a session reads from the device.
SessionLines ==
    {[kind |-> "log"],
     [kind |-> "json", obj |-> [ts |-> 1, rssi |-> -40, num |-> 2, amp |-> <<3, 5>>]],
     [kind |-> "json", obj |-> [ts |-> 2, amp |-> <<4>>, label |-> "device"]]}

\* Command lines: --append, --dataset given or not, --label and --description
\* (the description is read only next to a label).
ArgsChoices ==
    {a \in [append : BOOLEAN, dataset : BOOLEAN, label : {"", "sitting"},
            description : {"", "on a chair"}] :
        a.label = "" => a.description = ""}

\* The file named by --dataset: unreadable (missing, not JSON, no 'data'
\* key), or a dataset with its samples.
ExistingChoices ==
    {[readable |-> FALSE],
     [readable |-> TRUE, data |-> <<>>],
     [readable |-> TRUE,
      data |-> <<[ts |-> 8, amp |-> <<1, 2>>, label |-> "walking", description |-> "",
                  timestamp_utc |-> 0],
                 [ts |-> 9, amp |-> <<2>>, label |-> "empty", description |-> "",
                  timestamp_utc |-> 0]>>],
     [readable |-> TRUE, data |-> <<[ts |-> 7, amp |-> <<1>>]>>]}

InitCollect ==
    /\ TrainIdle
    /\ GenIdle
    /\ LinkIdle
    /\ StatIdle
    /\ EnvIdle
    /\ main_pc = "start"
    /\ args \in ArgsChoices
    /\ existing \in (IF args.append /\ args.dataset
                     THEN ExistingChoices ELSE {[readable |-> FALSE]})
    /\ ser = "none"
    /\ pose_data = <<>>
    /\ session = [label |-> "", description |-> "", session_data |-> <<>>]
    /\ sessions = <<>>
    /\ saved = [written |-> FALSE]
    /\ exit_status = [code |-> 0, raised |-> "none"]

\* collector.connect() opens the port.
Connect ==
    /\ main_pc = "start"
    /\ ser' = "open"
    /\ main_pc' = "connected"
    /\ UNCHANGED <<args, existing, pose_data, session, sessions, saved, exit_status>>
    /\ UNCHANGED <<trainVars, genVars, linkVars, statVars, envVars>>

\* collector.connect() returns False: sys.exit(1) before the try block.
ConnectFail ==
    /\ main_pc = "start"
    /\ main_pc' = "exited"
    /\ exit_status' = [code |-> 1, raised |-> "SystemExit"]
    /\ UNCHANGED <<args, existing, ser, pose_data, session, sessions, saved>>
    /\ UNCHANGED <<trainVars, genVars, linkVars, statVars, envVars>>

\* Where sys.exit(1) inside the try block goes: the finally clause.
load_failure_pc_skipping_finally == "exited"

load_failure_pc == "finally"

\* if args.append and args.dataset: load the existing data or exit 1.
LoadExisting ==
    /\ main_pc = "connected"
    /\ IF args.append /\ args.dataset
       THEN IF existing.readable
            THEN /\ pose_data' = existing.data
                 /\ main_pc' = "ready"
                 /\ UNCHANGED exit_status
            ELSE /\ main_pc' = load_failure_pc
                 /\ exit_status' = [code |-> 1, raised |-> "SystemExit"]
                 /\ UNCHANGED pose_data
       ELSE /\ main_pc' = "ready"
            /\ UNCHANGED <<pose_data, exit_status>>
    /\ UNCHANGED <<args, existing, ser, session, sessions, saved>>
    /\ UNCHANGED <<trainVars, genVars, linkVars, statVars, envVars>>

\* if args.label: collect_with_label(...) else: interactive_mode()
ChooseMode ==
    /\ main_pc = "ready"
    /\ IF args.label # ""
       THEN /\ session' = [label |-> args.label, description |-> args.description,
                           session_data |-> <<>>]
            /\ main_pc' = "sleep"
       ELSE /\ main_pc' = "prompt"
            /\ UNCHANGED session
    /\ UNCHANGED <<args, existing, ser, pose_data, sessions, saved, exit_status>>
    /\ UNCHANGED <<trainVars, genVars, linkVars, statVars, envVars>>

\* interactive_mode: the user picks a pose, quits, or types something else.
Prompt ==
    /\ main_pc = "prompt"
    /\ \E choice \in PromptChoices :
          IF choice = "q"
          THEN /\ main_pc' = "save"
               /\ UNCHANGED session
          ELSE IF choice \in DOMAIN poses /\ Len(sessions) < MaxSessions
          THEN /\ session' = [label |-> poses[choice][1], description |-> poses[choice][2],
                              session_data |-> <<>>]
               /\ main_pc' = "sleep"
          ELSE UNCHANGED <<main_pc, session>>
    /\ UNCHANGED <<args, existing, ser, pose_data, sessions, saved, exit_status>>
    /\ UNCHANGED <<trainVars, genVars, linkVars, statVars, envVars>>

\* collect_with_label: the 3 s sleep is over, the loop starts.
SessionStart ==
    /\ main_pc = "sleep"
    /\ main_pc' = "loop"
    /\ UNCHANGED <<args, existing, ser, pose_data, session, sessions, saved, exit_status>>
    /\ UNCHANGED <<trainVars, genVars, linkVars, statVars, envVars>>

\* One pass of the collection loop: read a line, label and keep a packet.
SessionStep ==
    /\ main_pc = "loop"
    /\ Len(pose_data) - (IF args.append /\ args.dataset THEN Len(existing.data) ELSE 0)
          + Len(session.session_data) < MaxPackets
    /\ \E line \in SessionLines, now \in {1, MaxClock} :
          LET packet == collect_packet(line)
          IN  IF packet = PyNone
              THEN UNCHANGED session
              ELSE session' =
                      [session EXCEPT !.session_data =
                          Append(@, label_packet(packet, session.label,
                                                 session.description, now))]
    /\ UNCHANGED <<main_pc, args, existing, ser, pose_data, sessions, saved, exit_status>>
    /\ UNCHANGED <<trainVars, genVars, linkVars, statVars, envVars>>

\* The session ends, by the clock or by a Ctrl+C caught in the loop; the
\* packets of the session join pose_data.
SessionEnd ==
    /\ main_pc = "loop"
    /\ pose_data' = extend_pose_data(pose_data, session.session_data)
    /\ sessions' = Append(sessions, session)
    /\ main_pc' = IF args.label # "" THEN "save" ELSE "prompt"
    /\ UNCHANGED <<args, existing, ser, session, saved, exit_status>>
    /\ UNCHANGED <<trainVars, genVars, linkVars, statVars, envVars>>

\* Ctrl+C outside the collection loop (at the prompt or in the sleep):
\* caught by main's except KeyboardInterrupt, nothing is saved.
Interrupt ==
    /\ main_pc \in {"ready", "prompt", "sleep", "save"}
    /\ main_pc' = "finally"
    /\ exit_status' = [code |-> 0, raised |-> "KeyboardInterrupt"]
    /\ UNCHANGED <<args, existing, ser, pose_data, session, sessions, saved>>
    /\ UNCHANGED <<trainVars, genVars, linkVars, statVars, envVars>>

\* collector.save_dataset(args.dataset if args.append else None)
SaveDataset ==
    /\ main_pc = "save"
    /\ main_pc' = "finally"
    /\ IF pose_data = <<>>
       THEN UNCHANGED <<saved, exit_status>>
       ELSE IF ~all_labelled(pose_data)
       THEN /\ exit_status' = [code |-> 1, raised |-> "KeyError"]
            /\ UNCHANGED saved
       ELSE /\ \E now \in 1..MaxClock :
                  saved' = [written |-> TRUE,
                            filename |-> IF args.append /\ args.dataset
                                         THEN "args.dataset" ELSE "csi_dataset_now.json",
                            content |-> dataset_of(pose_data, now)]
            /\ UNCHANGED exit_status
    /\ UNCHANGED <<args, existing, ser, pose_data, session, sessions>>
    /\ UNCHANGED <<trainVars, genVars, linkVars, statVars, envVars>>

\* finally: collector.disconnect()
Disconnect ==
    /\ main_pc = "finally"
    /\ ser' = IF ser = "open" THEN "closed" ELSE ser
    /\ main_pc' = "exited"
    /\ UNCHANGED <<args, existing, pose_data, session, sessions, saved, exit_status>>
    /\ UNCHANGED <<trainVars, genVars, linkVars, statVars, envVars>>

NextCollect ==
    \/ Connect
    \/ ConnectFail
    \/ LoadExisting
    \/ ChooseMode
    \/ Prompt
    \/ SessionStart
    \/ SessionStep
    \/ SessionEnd
    \/ Interrupt
    \/ SaveDataset
    \/ Disconnect

SpecCollect == InitCollect /\ [][NextCollect]_vars

\* The run keeps taking steps: a session ends when its duration is over and
\* the interpreter runs the finally clause whenever the try block is left.
SpecCollectFair == SpecCollect /\ WF_vars(NextCollect)

----------------------------------------------------------------------------
(* What the windowing is required to produce, stated from the input alone. *)

HasLabelAndAmp(s) == "label" \in DOMAIN s /\ "amp" \in DOMAIN s

\* The samples of the dataset that carry a label and an amplitude.
Usable == SelectSeq(data, HasLabelAndAmp)

UsableLabels == [i \in 1..Len(Usable) |-> Usable[i].label]

LabelsPresent == {Usable[i].label : i \in 1..Len(Usable)}

DroppedCount == Cardinality({i \in 1..Len(data) : ~HasLabelAndAmp(data[i])})

\* The samples of one label, in arrival order.
GroupOf(l) == SelectSeq(Usable, LAMBDA s : s.label = l)

Feature(s) == parse_sample(s, num_subcarriers).vec

NumWindowsOf(l) ==
    IF Len(GroupOf(l)) >= window_size THEN Len(GroupOf(l)) - window_size + 1 ELSE 0

\* The i-th window of label l: window_size consecutive samples of its group.
WindowOf(l, i) == [j \in 1..window_size |-> Feature(GroupOf(l)[i + j - 1])]

IsWindowOf(w, l) == \E i \in 1..NumWindowsOf(l) : w = WindowOf(l, i)

TableId(l) ==
    CASE l = "empty" -> 0
      [] l = "present" -> 1
      [] l = "moving" -> 2
      [] l = "walking" -> 3
      [] l = "sitting" -> 4
      [] l = "standing" -> 5
      [] OTHER -> 0

FirstAt(l) == SetMin({i \in 1..Len(Usable) : Usable[i].label = l})

\* The labels of a set, in the order of their first occurrence in the input.
RECURSIVE FirstOccurrenceOrder(_)
FirstOccurrenceOrder(Ls) ==
    IF Ls = {}
    THEN <<>>
    ELSE LET l == CHOOSE c \in Ls : \A o \in Ls : FirstAt(c) <= FirstAt(o)
         IN  <<l>> \o FirstOccurrenceOrder(Ls \ {l})

RECURSIVE ExpectedX(_)
ExpectedX(order) ==
    IF order = <<>>
    THEN <<>>
    ELSE [i \in 1..NumWindowsOf(Head(order)) |-> WindowOf(Head(order), i)]
         \o ExpectedX(Tail(order))

RECURSIVE ExpectedY(_)
ExpectedY(order) ==
    IF order = <<>>
    THEN <<>>
    ELSE [i \in 1..NumWindowsOf(Head(order)) |-> TableId(Head(order))]
         \o ExpectedY(Tail(order))

----------------------------------------------------------------------------
(* The claims about the windowing pipeline, checked under Spec. *)

\* C1: a dataset whose usable samples all carry one label, N of them, gives
\* exactly N - W + 1 windows when 1 <= W <= N and no window when W > N.
C1_WindowCount ==
    (pc # "file" /\ Cardinality(LabelsPresent) <= 1)
        => /\ raised = "none"
           /\ Len(X) = IF window_size <= Len(Usable)
                       THEN Len(Usable) - window_size + 1
                       ELSE 0

C1_Witness ==
    /\ pc = "loaded"
    /\ Cardinality(LabelsPresent) = 1
    /\ Len(Usable) = 3
    /\ window_size = 2
    /\ Len(X) = 2

\* C2: whatever the order of the input, every window holds exactly window_size
\* feature vectors, those of consecutive samples of one label's group in
\* arrival order: no window is partial and none mixes two labels.
C2_WindowsWithinOneLabel ==
    pc # "file"
        => \A k \in 1..Len(X) :
              /\ Len(X[k]) = window_size
              /\ \E l \in AllLabels : IsWindowOf(X[k], l)

C2_Witness ==
    /\ pc = "loaded"
    /\ window_size = 2
    /\ Len(data) = 3
    /\ Len(Usable) = 3
    /\ data[1].label = data[3].label
    /\ data[1].label # data[2].label
    /\ data[1] # data[3]
    /\ X = <<WindowOf(data[1].label, 1)>>

\* C7: the id of every window is the fixed table's id of the label of the
\* group the window was cut from, and a label outside the table gets id 0.
C7_LabelIds ==
    pc # "file"
        => /\ Len(y) = Len(X)
           /\ \A k \in 1..Len(X) : \A l \in AllLabels :
                 IsWindowOf(X[k], l) => y[k] = TableId(l)

C7_Witness ==
    /\ pc = "loaded"
    /\ window_size = 1
    /\ UsableLabels = <<"jumping", "empty", "standing">>
    /\ y = <<0, 0, 5>>

\* C8: samples lacking a label or an amplitude are dropped without an error,
\* the printed counts tell how many were dropped, and the result is the one
\* the windowing gives on the input without them.
C8_DropsUnusable ==
    pc # "file"
        => /\ raised = "none"
           /\ n_loaded - n_labeled = DroppedCount
           /\ LET r == create_windows(Usable, UsableLabels, window_size,
                                      num_subcarriers, numpy_ragged)
              IN  X = r.X /\ y = r.y

C8_Witness ==
    /\ pc = "loaded"
    /\ Len(data) = 3
    /\ \E i \in 1..3 : "label" \notin DOMAIN data[i]
    /\ \E i \in 1..3 : "amp" \notin DOMAIN data[i]
    /\ n_loaded = 3
    /\ n_labeled = 1
    /\ Len(X) = 1

\* C9: an input that yields no window returns empty tensors without raising,
\* main then exits, and training is never started on zero windows.
C9_NoTrainingOnZeroWindows ==
    /\ (pc # "file" /\ \A l \in AllLabels : NumWindowsOf(l) = 0)
           => /\ raised = "none"
              /\ X = <<>>
              /\ y = <<>>
              /\ pc \in {"loaded", "exit1"}
    /\ pc \in {"split", "training"} => Len(X) > 0

C9_Witness ==
    /\ pc = "exit1"
    /\ Len(Usable) = 1
    /\ window_size = 2
    /\ X = <<>>

\* C10: X and y have one length; every window is window_size rows of 2S
\* entries; the windows come group by group in the order in which the labels
\* first occur, by increasing start inside a group, and y[j] is the id of
\* window j.
C10_ShapeAndOrder ==
    pc # "file"
        => /\ raised = "none"
           /\ Len(X) = Len(y)
           /\ X = ExpectedX(FirstOccurrenceOrder(LabelsPresent))
           /\ y = ExpectedY(FirstOccurrenceOrder(LabelsPresent))
           /\ \A k \in 1..Len(X) :
                 /\ Len(X[k]) = window_size
                 /\ \A j \in 1..Len(X[k]) : Len(X[k][j]) = 2 * num_subcarriers

C10_Witness ==
    /\ pc = "loaded"
    /\ window_size = 1
    /\ UsableLabels = <<"sitting", "present", "sitting">>
    /\ y = <<4, 4, 1>>
    /\ Len(X) = 3

\* The samples behind the rows of X: window i of label l holds the samples
\* i .. i + window_size - 1 of the group of l.
RECURSIVE ExpectedSamples(_)
ExpectedSamples(order) ==
    IF order = <<>>
    THEN <<>>
    ELSE [i \in 1..NumWindowsOf(Head(order)) |->
             [j \in 1..window_size |-> GroupOf(Head(order))[i + j - 1]]]
         \o ExpectedSamples(Tail(order))

\* The vector of sample s in the dataset that holds s and nothing else.
VectorAlone(s) == group_features(<<s>>, num_subcarriers)[1].vec

\* C11: the feature vector of a sample depends on that sample and S only: in
\* every dataset, whatever else it holds, the row of X made from a sample is
\* the vector the same sample gets in the dataset that holds it alone.
C11_PerSampleOnly ==
    pc # "file"
        => LET rows == ExpectedSamples(FirstOccurrenceOrder(LabelsPresent))
           IN  /\ raised = "none"
               /\ Len(X) = Len(rows)
               /\ \A k \in 1..Len(X) : \A j \in 1..Len(X[k]) :
                     X[k][j] = VectorAlone(rows[k][j])

C11_Witness ==
    /\ pc = "loaded"
    /\ window_size = 2
    /\ num_subcarriers = 2
    /\ Len(data) = 3
    /\ \E k \in 1..Len(X) : X[k][1] # X[k][2]
    /\ \E a, b \in 1..Len(data) : data[a] # data[b] /\ a # b

----------------------------------------------------------------------------
(* The claims about the synthetic generator, checked under SpecGen. *)

\* The samples a generator call returned: the list itself, or dataset['data'].
SamplesOf(ret) ==
    IF gen_call.fn = "generate_dataset" THEN ret.data ELSE ret

CountLabel(samples, l) == Cardinality({i \in 1..Len(samples) : samples[i].label = l})

\* C13: generate_dataset(k) returns 6k samples, k of each of the six labels,
\* counted after the shuffle; total_packets says 6k and all six labels are
\* listed when k > 0.
C13_SixTimesK ==
    gen_call.fn = "generate_dataset"
        => /\ Len(gen_ret.data) = 6 * gen_call.n
           /\ \A l \in KnownLabels : CountLabel(gen_ret.data, l) = gen_call.n
           /\ gen_ret.metadata.total_packets = 6 * gen_call.n
           /\ gen_call.n > 0 => gen_ret.metadata.labels = KnownLabels

C13_Witness ==
    /\ gen_call.fn = "generate_dataset"
    /\ gen_call.n = MaxK
    /\ Len(gen_ret.data) = 6 * MaxK
    /\ gen_ret.data[1].label # "empty"
    /\ gen_ret.data[6 * MaxK].label # "standing"

\* The amplitudes, phases and rssi values of a sequence of samples.
Signal(samples) ==
    [i \in 1..Len(samples) |->
        [amp |-> samples[i].amp, phase |-> samples[i].phase, rssi |-> samples[i].rssi]]

DescriptionOf(l) ==
    CASE l = "empty" -> "Empty room - no person present"
      [] l = "present" -> "Person present, sitting or standing still"
      [] l = "moving" -> "Person moving around"
      [] l = "walking" -> "Person walking back and forth"
      [] l = "sitting" -> "Person sitting still"
      [] l = "standing" -> "Person standing still"

\* C15: every generated sample has ts in [100000, 999999), num = S, an
\* amplitude and a phase of S entries, no negative amplitude, the label of the
\* class that was asked for and that class's description.
C15_SampleShape ==
    gen_call.fn # "none"
        => \A i \in 1..Len(SamplesOf(gen_ret)) :
              LET smp == SamplesOf(gen_ret)[i]
              IN  /\ smp.ts >= 100000 /\ smp.ts < 999999
                  /\ smp.num = gen_num_subcarriers
                  /\ Len(smp.amp) = gen_num_subcarriers
                  /\ Len(smp.phase) = gen_num_subcarriers
                  /\ \A e \in 1..Len(smp.amp) : smp.amp[e] >= 0
                  /\ smp.label \in KnownLabels
                  /\ gen_call.fn \in KnownLabels => smp.label = gen_call.fn
                  /\ smp.description = DescriptionOf(smp.label)

C15_Witness ==
    /\ gen_call.fn = "walking"
    /\ gen_call.n = MaxK
    /\ gen_num_subcarriers = MaxS
    /\ Len(gen_ret) = MaxK
    /\ \E i \in 1..Len(gen_ret) :
          /\ \E e \in 1..MaxS : gen_ret[i].amp[e] = 0
          /\ \E e \in 1..MaxS : gen_ret[i].amp[e] > 0
    /\ \E i \in 1..Len(gen_ret) : gen_ret[i].ts = 999998

\* How often x occurs in a sequence.
Occurrences(seq, x) == Cardinality({i \in 1..Len(seq) : seq[i] = x})

IsPermutation(a, b) ==
    /\ Len(a) = Len(b)
    /\ \A i \in 1..Len(a) : Occurrences(a, a[i]) = Occurrences(b, a[i])

\* The six per-class sequences of one generate_dataset(k), each class drawing
\* from where the one before stopped; the loops of moving and walking count
\* from 0 inside their own class.
ClassSequences(k, S, r) ==
    LET empty == generate_empty_room(k, S, r)
        present == generate_person_present(k, S, empty.rng)
        moving == moving_loop(0, k, 0, S, present.rng, <<>>)
        walking == walking_loop(0, k, S, moving.rng, <<>>)
        sitting == generate_sitting(k, S, walking.rng)
        standing == generate_standing(k, S, sitting.rng)
    IN  empty.samples \o present.samples \o moving.samples \o walking.samples
            \o sitting.samples \o standing.samples

\* C26: the data of generate_dataset is a permutation of the six per-class
\* sequences put end to end: the shuffle moves whole samples and changes no
\* field, and moving and walking use the index inside their own class.
C26_ShuffleOfClassSequences ==
    gen_call.fn = "generate_dataset"
        => IsPermutation(gen_ret.data,
                         ClassSequences(gen_call.n, gen_num_subcarriers, gen_call.rng0))

C26_Witness ==
    /\ gen_call.fn = "generate_dataset"
    /\ gen_call.n = MaxK
    /\ gen_num_subcarriers = MaxS
    /\ gen_ret.data # ClassSequences(MaxK, MaxS, gen_call.rng0)
    /\ IsPermutation(gen_ret.data, ClassSequences(MaxK, MaxS, gen_call.rng0))

\* np.random's state after n draws.
RECURSIVE RngAfter(_, _)
RngAfter(r, n) == IF n <= 0 THEN r ELSE RngAfter(rng_next(r), n - 1)

\* A sample of generate_moving takes 2 * S + 3 draws: S amplitudes, the
\* increment of the phase centre, S phases, ts and rssi.
DrawsPerMoving == 2 * gen_num_subcarriers + 3

\* The increment drawn for the i-th sample (i from 1) of the last call.
Increment(i) ==
    100 * standard_deviate(RngAfter(gen_call.rng0,
                                    (i - 1) * DrawsPerMoving + gen_num_subcarriers))

\* The phase centre of the i-th sample: the sum of the first i increments.
RECURSIVE Centre(_)
Centre(i) == IF i <= 0 THEN 0 ELSE Centre(i - 1) + Increment(i)

PhaseNoise(i, e) ==
    300 * standard_deviate(RngAfter(gen_call.rng0,
                                    (i - 1) * DrawsPerMoving + gen_num_subcarriers + e))

\* C27: in every call of generate_moving, whatever was called before, the
\* phase of the i-th sample is drawn around the sum of the first i increments
\* of that call, counted from 0.
C27_CentreLocalToCall ==
    gen_call.fn = "moving"
        => \A i \in 1..Len(gen_ret) : \A e \in 1..gen_num_subcarriers :
              gen_ret[i].phase[e] =
                  Min2(Max2(Centre(i) + PhaseNoise(i, e), 0 - Pi1000), Pi1000)

C27_Witness ==
    /\ gen_call.fn = "moving"
    /\ gen_call.n = MaxK
    /\ Len(gen_ret) = MaxK
    /\ Centre(1) # 0
    /\ Centre(MaxK) # Centre(1)
    /\ \E e \in 1..gen_num_subcarriers :
          /\ gen_ret[MaxK].phase[e] = Centre(MaxK) + PhaseNoise(MaxK, e)
          /\ gen_ret[MaxK].phase[e] # PhaseNoise(MaxK, e)

----------------------------------------------------------------------------
(* The claims about the serial-link readers, checked under SpecLink. *)

\* A line that parses as a JSON object with both 'ts' and 'amp'.
IsCSIRecord(line) ==
    /\ line.kind = "json"
    /\ "ts" \in DOMAIN line.obj
    /\ "amp" \in DOMAIN line.obj

RecordsAmong(lines) ==
    LET recs == SelectSeq(lines, IsCSIRecord)
    IN  [i \in 1..Len(recs) |-> recs[i].obj]

\* C16: both readers accept exactly the lines that parse as a JSON object
\* with 'ts' and 'amp': of the lines read so far, collect_packet returned
\* those records and read_csi.main counted as many.
C16_SameAcceptRule ==
    /\ col_packets = RecordsAmong(SubSeq(link_lines, 1, col_pos))
    /\ rc_packet_count = Len(RecordsAmong(SubSeq(link_lines, 1, rc_pos)))

\* C17: no line ends a read loop: whatever has been read, no exception has
\* been raised and the reader is still reading unless the user stopped it.
C17_NoLineEndsLoop ==
    /\ rc_raised = "none"
    /\ rc_state \in {"reading", "interrupted"}

----------------------------------------------------------------------------
(* The claims about the analyzer, checked under SpecStats and SpecStatsRaw. *)

BatchOperations == {"analyze_by_label", "compute_temporal_features", "export_features"}

\* A record that passes the schema: it has a non-empty amplitude.
WellFormed(smp) == "amp" \in DOMAIN smp /\ smp.amp # <<>>

\* C18: a batch statistics operation does not raise on a dataset that holds a
\* record without 'amp' or with an empty amplitude, and the export still has
\* one entry for each of the other records.
C18_MalformedDropped ==
    an_call.fn \in BatchOperations
        => /\ an_ret.err = "none"
           /\ an_call.fn = "export_features"
                 => Len(an_ret.file.data) = Len(SelectSeq(an_data, WellFormed))

GroupSize(l) == Cardinality({i \in 1..Len(an_data) : label_or_unknown(an_data[i]) = l})

\* C19: compute_temporal_features reports every label once; a group of
\* N >= window_size samples gets two sequences of N - window_size + 1 values
\* and a stability flag, a smaller group is skipped and gets none of them.
C19_TemporalLengths ==
    an_call.fn = "compute_temporal_features"
        => /\ an_ret.err = "none"
           /\ {an_ret.report[k].label : k \in 1..Len(an_ret.report)} = labels_of(an_data)
           /\ Len(an_ret.report) = Cardinality(labels_of(an_data))
           /\ \A k \in 1..Len(an_ret.report) :
                 LET e == an_ret.report[k]
                     N == GroupSize(e.label)
                 IN  IF N >= an_call.window_size
                     THEN /\ ~e.skipped
                          /\ Len(e.amp_std_variance) = N - an_call.window_size + 1
                          /\ Len(e.phase_std_variance) = N - an_call.window_size + 1
                          /\ "stability" \in DOMAIN e
                     ELSE /\ e.skipped
                          /\ DOMAIN e = {"label", "skipped"}

C19_Witness ==
    /\ an_call.fn = "compute_temporal_features"
    /\ an_call.window_size = 2
    /\ Len(an_data) = 3
    /\ \E j, k \in 1..Len(an_ret.report) :
          /\ an_ret.report[j].skipped
          /\ ~an_ret.report[k].skipped
          /\ Len(an_ret.report[k].amp_std_variance) = 1
          /\ Len(an_ret.report[k].phase_std_variance) = 1

\* C20: compute_features on a sample without phase, or with an empty one,
\* returns 0 for the three phase statistics; rssi and num are passed through,
\* rssi defaulting to 0 and num to the amplitude's length.
C20_PhaseDefaultsAndPassThrough ==
    an_call.fn = "compute_features"
        => /\ an_ret.err = "none"
           /\ ("phase" \notin DOMAIN an_call.sample \/ an_call.sample.phase = <<>>)
                 => /\ an_ret.features.phase_mean = Zero
                    /\ an_ret.features.phase_std = Zero
                    /\ an_ret.features.phase_var = Zero
           /\ an_ret.features.rssi =
                 IF "rssi" \in DOMAIN an_call.sample THEN an_call.sample.rssi ELSE 0
           /\ an_ret.features.num_subcarriers =
                 IF "num" \in DOMAIN an_call.sample THEN an_call.sample.num
                 ELSE Len(an_call.sample.amp)

C20_Witness ==
    /\ an_call.fn = "compute_features"
    /\ DOMAIN an_call.sample = {"label", "amp", "phase"}
    /\ an_call.sample.phase = <<>>
    /\ an_ret.features.phase_std = Zero
    /\ an_ret.features.rssi = 0
    /\ an_ret.features.num_subcarriers = 2
    /\ \E i \in 1..Len(an_data) :
          /\ "phase" \in DOMAIN an_data[i]
          /\ an_data[i].phase # <<>>
          /\ compute_features(an_data[i]).features.phase_std # Zero

\* The population variance by its definition: the mean of the squared
\* distances to the mean, sum((n*x - sum)^2) / n^3.
PopulationVariance(a) ==
    Rat(Sum([i \in 1..Len(a) |-> (Len(a) * a[i] - Sum(a)) * (Len(a) * a[i] - Sum(a))]),
        Len(a) * Len(a) * Len(a))

Largest(a) == CHOOSE m \in {a[i] : i \in 1..Len(a)} : \A i \in 1..Len(a) : a[i] <= m
Smallest(a) == CHOOSE m \in {a[i] : i \in 1..Len(a)} : \A i \in 1..Len(a) : m <= a[i]

\* C21: the amplitude statistics are those of the raw amplitude: the range
\* is max - min, the median lies between min and max, the variance is the
\* population variance and the square of the deviation; [1,2,3,4,5] gives
\* mean 3, min 1, max 5, range 4, median 3 and variance 2.
C21_AmplitudeStatistics ==
    an_call.fn = "compute_features"
        => LET f == an_ret.features
               amp == an_call.sample.amp
           IN  /\ an_ret.err = "none"
               /\ f.amp_min = Smallest(amp)
               /\ f.amp_max = Largest(amp)
               /\ f.amp_range = f.amp_max - f.amp_min
               /\ f.amp_min * f.amp_median.den <= f.amp_median.num
               /\ f.amp_median.num <= f.amp_max * f.amp_median.den
               /\ f.amp_median.root = 1
               /\ f.amp_var = PopulationVariance(amp)
               /\ f.amp_std.num = f.amp_var.num
               /\ f.amp_std.den = f.amp_var.den
               /\ f.amp_std.root = (IF f.amp_var.num = 0 THEN 1 ELSE 2)
               /\ amp = <<1, 2, 3, 4, 5>>
                     => /\ f.amp_mean = [num |-> 3, den |-> 1, root |-> 1]
                        /\ f.amp_min = 1
                        /\ f.amp_max = 5
                        /\ f.amp_range = 4
                        /\ f.amp_median = [num |-> 3, den |-> 1, root |-> 1]
                        /\ f.amp_var = [num |-> 2, den |-> 1, root |-> 1]

C21_Witness ==
    /\ an_call.fn = "compute_features"
    /\ an_call.sample.amp = <<1, 2, 3, 4, 5>>
    /\ an_ret.err = "none"
    /\ an_ret.features.amp_std = [num |-> 2, den |-> 1, root |-> 2]
    /\ an_ret.features.amp_range = 4

----------------------------------------------------------------------------
(* load_wifi_env.py: the .env parser and the script's main.

   Text is a sequence of tokens: the characters the parser looks at (space,
   '#', '=', the two quote characters) and words, which stand for non-empty
   runs of other characters.  No word used here is a prefix of another, so
   two different token sequences are two different strings. *)

MaxLineLen == 3
MaxEnvLines == 3

\* str.strip(), str.startswith(c), str.endswith(c)
RECURSIVE lstrip(_)
lstrip(t) == IF t # <<>> /\ Head(t) = " " THEN lstrip(Tail(t)) ELSE t

RECURSIVE rstrip(_)
rstrip(t) ==
    IF t # <<>> /\ t[Len(t)] = " " THEN rstrip(SubSeq(t, 1, Len(t) - 1)) ELSE t

strip(t) == rstrip(lstrip(t))

startswith(t, c) == t # <<>> /\ t[1] = c

endswith(t, c) == t # <<>> /\ t[Len(t)] = c

\* line.split('=', 1) of a line that contains '='
split_once(t, c) ==
    LET at == CHOOSE i \in 1..Len(t) : t[i] = c /\ \A j \in 1..(i - 1) : t[j] # c
    IN  [key |-> SubSeq(t, 1, at - 1), value |-> SubSeq(t, at + 1, Len(t))]

\* lines 50-53: value[1:-1] when the value starts and ends with the same
\* quote character
remove_quotes(value) ==
    IF startswith(value, "\"") /\ endswith(value, "\"")
    THEN SubSeq(value, 2, Len(value) - 1)
    ELSE IF startswith(value, "'") /\ endswith(value, "'")
    THEN SubSeq(value, 2, Len(value) - 1)
    ELSE value

\* A dict, in insertion order: a sequence of [key, value] with distinct keys.
dict_has(d, key) == \E i \in 1..Len(d) : d[i].key = key

dict_set(d, key, value) ==
    IF dict_has(d, key)
    THEN [i \in 1..Len(d) |-> IF d[i].key = key THEN [key |-> key, value |-> value]
                                                 ELSE d[i]]
    ELSE Append(d, [key |-> key, value |-> value])

\* the body of "for line in f" (lines 37-55)
parse_line(raw, env_vars) ==
    LET line == strip(raw)
    IN  IF line = <<>> \/ startswith(line, "#") THEN env_vars
        ELSE IF \E i \in 1..Len(line) : line[i] = "="
             THEN LET kv == split_once(line, "=")
                  IN  dict_set(env_vars, strip(kv.key), remove_quotes(strip(kv.value)))
             ELSE env_vars

RECURSIVE parse_lines(_, _)
parse_lines(lines, env_vars) ==
    IF lines = <<>> THEN env_vars
    ELSE parse_lines(Tail(lines), parse_line(Head(lines), env_vars))

load_env_file_unguarded(file) ==
    IF ~file.exists THEN [err |-> "FileNotFoundError"]
    ELSE [err |-> "none", vars |-> parse_lines(file.lines, <<>>)]

load_env_file(file) ==
    IF ~file.exists THEN [err |-> "none", vars |-> <<>>]
    ELSE [err |-> "none", vars |-> parse_lines(file.lines, <<>>)]

\* lines 73-76
Placeholders_ssid_only ==
    <<[key |-> <<"WIFI_SSID">>, value |-> <<"YOUR_WIFI_SSID">>]>>

Placeholders ==
    <<[key |-> <<"WIFI_SSID">>, value |-> <<"YOUR_WIFI_SSID">>],
      [key |-> <<"WIFI_PASSWORD">>, value |-> <<"YOUR_WIFI_PASSWORD">>]>>

\* required_vars = ['WIFI_SSID', 'WIFI_PASSWORD'] and those not in env_vars
missing_vars(env_vars) ==
    SelectSeq(<< <<"WIFI_SSID">>, <<"WIFI_PASSWORD">> >>,
              LAMBDA var : ~dict_has(env_vars, var))

\* os.environ[key] = value.  An empty name is refused by setenv (OSError)
\* and accepted by the putenv of older interpreters: empty_name says which.
RECURSIVE export(_, _, _)
export(env_vars, environ, empty_name) ==
    IF env_vars = <<>> THEN [err |-> "none", environ |-> environ]
    ELSE IF Head(env_vars).key = <<>> /\ empty_name = "raise"
         THEN [err |-> "OSError", environ |-> environ]
         ELSE export(Tail(env_vars),
                     (Head(env_vars).key :> Head(env_vars).value) @@ environ,
                     empty_name)

\* main (lines 59-95)
env_main_exporting_first(file, environ, empty_name) ==
    LET env_vars == IF ~file.exists THEN Placeholders ELSE load_env_file(file).vars
        exported == export(env_vars, environ, empty_name)
    IN  IF exported.err # "none" THEN exported
        ELSE IF missing_vars(env_vars) # <<>>
             THEN [err |-> "SystemExit", code |-> 1, environ |-> exported.environ]
             ELSE [err |-> "none", ret |-> 0, environ |-> exported.environ]

env_main(file, environ, empty_name) ==
    LET env_vars == IF ~file.exists THEN Placeholders ELSE load_env_file(file).vars
    IN  IF missing_vars(env_vars) # <<>>
        THEN [err |-> "SystemExit", code |-> 1, environ |-> environ]
        ELSE LET exported == export(env_vars, environ, empty_name)
             IN  IF exported.err # "none" THEN exported
                 ELSE [err |-> "none", ret |-> 0, environ |-> exported.environ]

\* The inputs: every line of up to MaxLineLen tokens in a file of its own,
\* and files of up to MaxEnvLines lines taken from KeyLines.
KeyLines ==
    { <<"WIFI_SSID", "=", "v">>,
      <<"WIFI_PASSWORD", "=", "\"", "v", " ", "v", "\"">>,
      <<"WIFI_SSID", " ", "=", " ", "'", "w", "'", " ">>,
      <<"#", " ", "WIFI_PASSWORD", "=", "v">>,
      <<"=", "v">>,
      <<"WIFI_PASSWORD", "=", "v", "=", "w">>,
      <<"WIFI_PASSWORD">> }

EnvFiles ==
    {[exists |-> FALSE]}
      \cup {[exists |-> TRUE, lines |-> <<l>>] :
               l \in UNION {[1..n -> {" ", "#", "=", "\"", "'", "v"}] : n \in 0..MaxLineLen}}
      \cup {[exists |-> TRUE, lines |-> ls] :
               ls \in UNION {[1..n -> KeyLines] : n \in 0..MaxEnvLines}}

InitEnv ==
    /\ TrainIdle
    /\ GenIdle
    /\ LinkIdle
    /\ StatIdle
    /\ CollectIdle
    /\ env_file \in EnvFiles
    /\ os_environ \in {<<>>, (<<"WIFI_SSID">> :> <<"old">>)}
    /\ env_call = [fn |-> "none"]
    /\ env_ret = [err |-> "none"]

\* A caller (the tests) calls load_env_file on the file.
LoadEnvFile ==
    /\ env_call.fn = "none"
    /\ env_call' = [fn |-> "load_env_file"]
    /\ env_ret' = load_env_file(env_file)
    /\ UNCHANGED <<env_file, os_environ>>
    /\ UNCHANGED <<trainVars, genVars, linkVars, statVars, collectVars>>

\* The script runs: main, and sys.exit(main()).
EnvMain ==
    /\ env_call.fn = "none"
    /\ \E empty_name \in {"raise", "set"} :
          LET r == env_main(env_file, os_environ, empty_name)
          IN  /\ env_call' = [fn |-> "main", environ |-> os_environ]
              /\ env_ret' = [k \in DOMAIN r \ {"environ"} |-> r[k]]
              /\ os_environ' = r.environ
    /\ UNCHANGED env_file
    /\ UNCHANGED <<trainVars, genVars, linkVars, statVars, collectVars>>

NextEnv == LoadEnvFile \/ EnvMain

SpecEnv == InitEnv /\ [][NextEnv]_vars

----------------------------------------------------------------------------
(* The claims about load_wifi_env.py, checked under SpecEnv. *)

SetMax(S) == CHOOSE m \in S : \A o \in S : m >= o

\* A text without its surrounding whitespace.
Trim(t) ==
    LET inked == {i \in 1..Len(t) : t[i] # " "}
    IN  IF inked = {} THEN <<>> ELSE SubSeq(t, SetMin(inked), SetMax(inked))

\* A value without its pair of surrounding quotes, when it has one.
Unquoted(v) ==
    IF Len(v) >= 2 /\ v[1] \in {"\"", "'"} /\ v[Len(v)] = v[1]
    THEN SubSeq(v, 2, Len(v) - 1)
    ELSE v

\* The lines that are not blank, not comments and contain '='.
Assigns(l) ==
    /\ Trim(l) # <<>>
    /\ Trim(l)[1] # "#"
    /\ \E i \in 1..Len(l) : l[i] = "="

FirstEquals(l) == SetMin({i \in 1..Len(l) : l[i] = "="})

KeyOf(l) == Trim(SubSeq(l, 1, FirstEquals(l) - 1))

ValueOf(l) == Unquoted(Trim(SubSeq(l, FirstEquals(l) + 1, Len(l))))

\* The mapping a file specifies: the last assignment to a key wins.
SpecifiedMapping(lines) ==
    LET assigning == {i \in 1..Len(lines) : Assigns(lines[i])}
    IN  [k \in {KeyOf(lines[i]) : i \in assigning} |->
            ValueOf(lines[SetMax({i \in assigning : KeyOf(lines[i]) = k})])]

AsMapping(d) ==
    [k \in {d[i].key : i \in 1..Len(d)} |->
        d[CHOOSE i \in 1..Len(d) : d[i].key = k].value]

\* C23: load_env_file returns the mapping the lines specify: blank lines,
\* comments and lines without '=' give nothing, the others are split at the
\* first '=', key and value trimmed, one pair of surrounding quotes removed.
C23_MappingOfLines ==
    (env_call.fn = "load_env_file" /\ env_file.exists)
        => /\ env_ret.err = "none"
           /\ AsMapping(env_ret.vars) = SpecifiedMapping(env_file.lines)

\* C24: load_env_file returns the empty mapping and raises nothing on a
\* missing file and on an empty file.
C24_NoFileNoPairs ==
    (env_call.fn = "load_env_file" /\ (~env_file.exists \/ env_file.lines = <<>>))
        => /\ env_ret.err = "none"
           /\ env_ret.vars = <<>>

C24_Witness ==
    /\ env_call.fn = "load_env_file"
    /\ ~env_file.exists
    /\ env_ret = [err |-> "none", vars |-> <<>>]

\* C25: without a .env file main returns 0 and the environment holds the two
\* placeholder values.
C25_PlaceholdersExported ==
    (env_call.fn = "main" /\ ~env_file.exists)
        => /\ env_ret = [err |-> "none", ret |-> 0]
           /\ <<"WIFI_SSID">> \in DOMAIN os_environ
           /\ <<"WIFI_PASSWORD">> \in DOMAIN os_environ
           /\ os_environ[<<"WIFI_SSID">>] = <<"YOUR_WIFI_SSID">>
           /\ os_environ[<<"WIFI_PASSWORD">>] = <<"YOUR_WIFI_PASSWORD">>

C25_Witness ==
    /\ env_call.fn = "main"
    /\ ~env_file.exists
    /\ env_call.environ = (<<"WIFI_SSID">> :> <<"old">>)
    /\ env_ret = [err |-> "none", ret |-> 0]
    /\ os_environ[<<"WIFI_SSID">>] = <<"YOUR_WIFI_SSID">>

\* The file assigns the variable.
Assigned(var) == \E i \in 1..Len(env_file.lines) :
                    Assigns(env_file.lines[i]) /\ KeyOf(env_file.lines[i]) = var

\* C30: with a .env file that does not assign both WIFI_SSID and
\* WIFI_PASSWORD main exits with status 1 and the environment is what it was.
C30_ValidatedBeforeExport ==
    (/\ env_call.fn = "main"
     /\ env_file.exists
     /\ ~(Assigned(<<"WIFI_SSID">>) /\ Assigned(<<"WIFI_PASSWORD">>)))
        => /\ env_ret = [err |-> "SystemExit", code |-> 1]
           /\ os_environ = env_call.environ

C30_Witness ==
    /\ env_call.fn = "main"
    /\ env_file.exists
    /\ Assigned(<<"WIFI_SSID">>)
    /\ ~Assigned(<<"WIFI_PASSWORD">>)
    /\ env_call.environ = <<>>
    /\ os_environ = <<>>
    /\ env_ret = [err |-> "SystemExit", code |-> 1]

----------------------------------------------------------------------------
(* The claims about the collector, checked under SpecCollect. *)

\* The packets of the finished sessions, in session order.
RECURSIVE CollectedIn(_)
CollectedIn(ss) ==
    IF ss = <<>> THEN <<>> ELSE Head(ss).session_data \o CollectedIn(Tail(ss))

\* What pose_data held before the first session of the run.
LoadedBefore ==
    IF args.append /\ args.dataset /\ existing.readable THEN existing.data ELSE <<>>

\* C22: in append mode the file written is the file named by --dataset, its
\* data is the existing samples in their order followed by the samples of
\* this run, total_packets is the length of data and labels is the set of
\* the labels in data.
C22_AppendMerges ==
    (saved.written /\ args.append /\ args.dataset)
        => LET d == saved.content.data
               n == Len(existing.data)
           IN  /\ saved.filename = "args.dataset"
               /\ Len(d) = n + Len(CollectedIn(sessions))
               /\ SubSeq(d, 1, n) = existing.data
               /\ SubSeq(d, n + 1, Len(d)) = CollectedIn(sessions)
               /\ saved.content.metadata.total_packets = Len(d)
               /\ saved.content.metadata.labels = {d[i].label : i \in 1..Len(d)}

C22_Witness ==
    /\ saved.written
    /\ args.append
    /\ args.dataset
    /\ Len(existing.data) = 2
    /\ Len(saved.content.data) = 2 + MaxPackets
    /\ Cardinality(saved.content.metadata.labels) >= 3

\* C28: at every moment pose_data is what was loaded followed by the packets
\* of the finished sessions in session order, and every packet of a session
\* carries that session's label and description.
C28_SessionsConcatenated ==
    (ser # "none" /\ main_pc \notin {"idle", "start", "connected"})
        => /\ pose_data = LoadedBefore \o CollectedIn(sessions)
           /\ \A k \in 1..Len(sessions) : \A i \in 1..Len(sessions[k].session_data) :
                 /\ sessions[k].session_data[i].label = sessions[k].label
                 /\ sessions[k].session_data[i].description = sessions[k].description

C28_Witness ==
    /\ main_pc = "prompt"
    /\ Len(sessions) = 2
    /\ sessions[1].label # sessions[2].label
    /\ Len(sessions[1].session_data) = 1
    /\ Len(sessions[2].session_data) = 1
    /\ Len(pose_data) = 2
    /\ pose_data[1].label = sessions[1].label
    /\ pose_data[2].label = sessions[2].label

\* C29: once the port is open it is eventually closed, by whichever path
\* main leaves: completion, exit 1 on a dataset that cannot be loaded, Ctrl+C.
C29_PortEventuallyClosed == (ser = "open") ~> (ser = "closed" /\ main_pc = "exited")

C29_Witness ==
    /\ main_pc = "exited"
    /\ ser = "closed"
    /\ exit_status = [code |-> 1, raised |-> "SystemExit"]
    /\ args.append
    /\ ~existing.readable

----------------------------------------------------------------------------
(* The claims about parse_sample, checked under SpecParse. *)

\* The phase padded with zeros or cut to S entries by its own length, scaled.
PhaseBySelf(p, S) == [i \in 1..S |-> <<"pi", IF i <= Len(p) THEN p[i] ELSE 0>>]

\* C3: for a non-empty amplitude and any phase, parse_sample returns a vector
\* of exactly 2S entries (amplitudes of S - 1, S and S + 1 entries included).
C3_FixedLength ==
    (pc = "returned" /\ sample_arg.amp # <<>>)
        => /\ features_ret.err = "none"
           /\ Len(features_ret.vec) = 2 * num_subcarriers

\* C4: the phase is padded or truncated to S entries by its own length,
\* whatever the length of the amplitude.
C4_PhaseIndependent ==
    (pc = "returned" /\ "phase" \in DOMAIN sample_arg)
        => /\ features_ret.err = "none"
           /\ SubSeq(features_ret.vec, num_subcarriers + 1, Len(features_ret.vec))
                 = PhaseBySelf(sample_arg.phase, num_subcarriers)

\* C5: a sample with an empty amplitude is rejected with an error; no feature
\* vector is returned for it.
C5_EmptyAmplitudeRejected ==
    (pc = "returned" /\ sample_arg.amp = <<>>) => features_ret.err # "none"

----------------------------------------------------------------------------
(* The claim about invalid configurations, checked under SpecConfig. *)

\* C6: with window_size <= 0 or num_subcarriers <= 0 the windowing fails with
\* an error and returns no windows and no label ids.
C6_InvalidConfigRejected ==
    (pc # "file" /\ (window_size <= 0 \/ num_subcarriers <= 0))
        => /\ raised # "none"
           /\ X = <<>>
           /\ y = <<>>

\* C12: a sample without a phase field is parsed as if its phase were zeros
\* of the amplitude's length: no error, 2S entries, the last S all zero.
C12_AbsentPhaseIsZero ==
    (pc = "returned" /\ "amp" \in DOMAIN sample_arg /\ "phase" \notin DOMAIN sample_arg)
        => /\ features_ret.err = "none"
           /\ Len(features_ret.vec) = 2 * num_subcarriers
           /\ \A i \in (num_subcarriers + 1)..(2 * num_subcarriers) :
                 features_ret.vec[i] = <<"pi", 0>>

C12_Witness ==
    /\ pc = "returned"
    /\ "phase" \notin DOMAIN sample_arg
    /\ Len(sample_arg.amp) = num_subcarriers + 1
    /\ num_subcarriers = MaxS
    /\ features_ret.vec[2 * num_subcarriers] = <<"pi", 0>>

====
